---- MODULE Spec2Model ----
(***************************************************************************)
(* A model of the project generator of M7M01_MuEukaron                     *)
(* (src/Tools/MCU/rme_mcu.c): memory alignment and placement, capability   *)
(* identifier allocation and the ARMv7-M page table synthesis, together    *)
(* with the command line, the readers of the description file, the name    *)
(* checks and the allocation list.                                         *)
(*                                                                         *)
(* The generator is a single-threaded batch tool.  Its stages run one      *)
(* after another on one project structure (main, lines 2933-2996), and a   *)
(* stage that fails ends the run through EXIT_FAIL.  The stages read       *)
(* disjoint parts of the project: placement reads the memory segments,     *)
(* capability allocation reads the kernel object lists, and the page table *)
(* generator reads the memory segments of one process.  The model has one  *)
(* specification per group of stages, each over the same variables, whose  *)
(* initial states are the project structures the ingestion stage builds    *)
(* (drawn from bounded pools of values).  SpecMain runs the stages in the  *)
(* order of main.  A function that reads one text or one argument list     *)
(* (Validate_Name, Get_Hex, the attribute reader, Cmdline_Proc,            *)
(* Populate_Mem, Malloc and Free) has a specification of its own, with the *)
(* argument in Arg and the result in Ret.                                  *)
(*                                                                         *)
(* Some statements of the source do not build as written (a call with a    *)
(* missing argument, a field that does not exist).  Each is modelled by    *)
(* the only reading under which the surrounding function makes sense, and  *)
(* the place is marked where it happens.                                   *)
(***************************************************************************)
EXTENDS Integers, Sequences, FiniteSets, TLC

VARIABLES
    pc,     \* position of main: the stage that runs next, or how the run ended
    res,    \* the message of the EXIT_FAIL that ended the run ("" if none)
    Chip,   \* struct Chip_Info.Mem: sequence of chip memory segments
    RME,    \* struct RME_Info: Code_Start, Code_Size, Data_Start, Data_Size
    RVM,    \* struct RVM_Info: Code_Size, Data_Size, Captbl_Frontier, Captbl
    Proj,   \* struct Proj_Info.Proc: sequence of struct Proc_Info
    Map,    \* struct Mem_Map of the Alloc_Mem call that ran last
    Pgtbl,  \* the page table trees returned by A7M_Gen_Pgtbl, per process
    Mem_List, \* the list of all memory allocated, with the blocks it links
    Arg,    \* the argument of the function under study
    Ret     \* the locals and the result of the function under study

vars == <<pc, res, Chip, RME, RVM, Proj, Map, Pgtbl, Mem_List, Arg, Ret>>

(***************************************************************************)
(* Program constants                                                       *)
(***************************************************************************)
\* ptr_t is an unsigned machine word and all address arithmetic wraps
\* around at its modulus.  The code's ptr_t is u32; the modulus here is
\* 2^30, the largest power of two for which the sum of two words is still
\* an integer the model checker can hold.
W32 == 1073741824
AUTO == W32 - 1
INVALID == W32 - 2
MEM_CODE == 0
MEM_DATA == 1
MEM_DEVICE == 2
ENDP_SEND == 0
ENDP_RECEIVE == 1
ENDP_HANDLER == 2
CAP_CAPTBL == 0
CAP_PROC == 1
CAP_THD == 2
CAP_INV == 3
CAP_ENDP == 4

(***************************************************************************)
(* Bounds of the model                                                     *)
(***************************************************************************)
\* processes of a project
MaxProc == 2
\* memory segments of a project, over all its processes
MaxMem == 2

(***************************************************************************)
(* Generic helpers                                                         *)
(***************************************************************************)
Add32(a, b) == (a + b) % W32
Sub32(a, b) == (a - b + W32) % W32

\* The value of a field that the code allocates with malloc and never
\* writes before the stage under study: any value.
Indeterminate == {0, 24}

NoMap == [Mem_Array |-> <<>>, Mem_Bitmap |-> <<>>, Proc_Mem_Array |-> <<>>]

\* The allocation list where a specification does not follow the allocations
NoList == <<>>

\* Marks an identifier field that no stage has written yet (no u32 value)
Unset == W32

\* A struct Proc_Info as Parse_Process leaves it before its lists are filled
NewProc(Name) ==
    [Name |-> Name, Mem |-> <<>>, Thd |-> <<>>, Inv |-> <<>>, Port |-> <<>>,
     Endp |-> <<>>, Captbl_Frontier |-> Unset, RVM_Proc_Capid |-> Unset,
     RVM_Captbl_Capid |-> Unset]

\* The processes are named "A", "B", ... in the order they are declared, and
\* the objects of a list of a process "F", "G", ... in the order they are
\* declared: a port and an invocation, or two endpoints, bear the same name
\* when they stand at the same position of their lists
ProcName(Num) == <<64 + Num>>
ObjName(Num) == <<69 + Num>>

(***************************************************************************)
(* Memory alignment (A7M_Align, Align_Mem)                                 *)
(***************************************************************************)
\* while(Temp<Mem->Size) Temp<<=1; on u32.  0 stands for the loop that never
\* ends (Temp wrapped to 0 and stays below Size forever).
RECURSIVE Pow2Ceil(_, _)
Pow2Ceil(Temp, Size) ==
    IF Temp >= Size THEN Temp
    ELSE IF (Temp * 2) % W32 = 0 THEN 0
    ELSE Pow2Ceil((Temp * 2) % W32, Size)

\* What A7M_Align does to one segment: ret is 0 or -1 as in the code,
\* "crash" is the division by zero of Size by an Align of 0.
A7M_Align(Mem) ==
    IF Mem.Start # AUTO
    THEN IF Mem.Start % 32 # 0 \/ Mem.Size % 32 # 0
         THEN [out |-> "ret", ret |-> -1, Mem |-> Mem]
         ELSE [out |-> "ret", ret |-> 0, Mem |-> Mem]
    ELSE LET Temp == Pow2Ceil(1, Mem.Size)
             Align == Temp \div 8
         IN  IF Temp = 0 THEN [out |-> "hang", ret |-> 0, Mem |-> Mem]
             ELSE IF Align = 0 THEN [out |-> "crash", ret |-> 0, Mem |-> Mem]
             ELSE [out |-> "ret", ret |-> 0,
                   Mem |-> [Mem EXCEPT !.Align = Align,
                                       !.Size = (Sub32(Mem.Size, 1) \div Align) * Align]]

\* All <<process, segment>> index pairs in the order of the two nested loops
RECURSIVE MemRefsFrom(_, _, _)
MemRefsFrom(proj, p, m) ==
    IF p > Len(proj) THEN <<>>
    ELSE IF m > Len(proj[p].Mem) THEN MemRefsFrom(proj, p + 1, 1)
    ELSE <<(<<p, m>>)>> \o MemRefsFrom(proj, p, m + 1)

MemRefs(proj) == MemRefsFrom(proj, 1, 1)

\* Align_Mem: the loop over every segment of every process, stopping at the
\* first segment the callback refuses.
RECURSIVE AlignFrom(_, _, _)
AlignFrom(proj, refs, i) ==
    IF i > Len(refs) THEN [out |-> "ok", msg |-> "", proj |-> proj]
    ELSE LET p == refs[i][1]
             m == refs[i][2]
             r == A7M_Align(proj[p].Mem[m])
         IN  IF r.out # "ret" THEN [out |-> r.out, msg |-> "", proj |-> proj]
             ELSE IF r.ret # 0
                  THEN [out |-> "fail", msg |-> "Memory aligning failed.", proj |-> proj]
                  ELSE AlignFrom([proj EXCEPT ![p].Mem[m] = r.Mem], refs, i + 1)

Align_Mem(proj) == AlignFrom(proj, MemRefs(proj), 1)

(***************************************************************************)
(* Memory placement (Insert_Mem, Try_Bitmap, Mark_Bitmap, Populate_Mem,    *)
(* Fit_Mem, Alloc_Mem)                                                     *)
(*                                                                         *)
(* An array of pointers is a sequence: the non-null entries the code keeps *)
(* at the front of the array.  An entry of Proc_Mem_Array carries the      *)
(* <<process, segment>> it points to in ref.  A bitmap is the set of the   *)
(* bit numbers that are set; one bit stands for 4 bytes.                   *)
(***************************************************************************)
\* The position Insert_Mem's first loop stops at (1-based): the first entry
\* whose key is greater than Mem's, or the first null entry.
RECURSIVE InsertPos(_, _, _, _)
InsertPos(Array, Mem, Category, Pos) ==
    IF Pos > Len(Array) THEN Pos
    ELSE IF Category = 0 /\ Array[Pos].Start > Mem.Start THEN Pos
    ELSE IF Category # 0 /\ Array[Pos].Size > Mem.Size THEN Pos
    ELSE InsertPos(Array, Mem, Category, Pos + 1)

\* Insert_Mem on an array of Length entries of which Len(Array) are in use.
\* When all Length entries are in use, the loop that shifts the entries
\* stores the last one behind the array, where it is no entry of it.
Insert_Mem(Array, Length, Mem, Category) ==
    LET Pos == InsertPos(Array, Mem, Category, 1)
        Shifted == SubSeq(Array, 1, Pos - 1) \o <<Mem>> \o SubSeq(Array, Pos, Len(Array))
    IN  IF Pos > Length
        THEN [ret |-> -1, Array |-> Array]
        ELSE [ret |-> 0,
              Array |-> IF Len(Shifted) > Length THEN SubSeq(Shifted, 1, Length) ELSE Shifted]

Try_Bitmap(Bitmap, Start, Size) ==
    IF \E Count \in 0..(Size - 1) : (Start + Count) \in Bitmap THEN -1 ELSE 0

Mark_Bitmap(Bitmap, Start, Size) ==
    Bitmap \cup {Start + Count : Count \in 0..(Size - 1)}

\* The first chip segment of the map that contains the address Start
\* (Len + 1 when there is none): the loop at the head of Populate_Mem.
RECURSIVE PopulateFind(_, _, _)
PopulateFind(Array, Start, Mem_Cnt) ==
    IF Mem_Cnt > Len(Array) THEN Mem_Cnt
    ELSE IF Start >= Array[Mem_Cnt].Start
            /\ Start < Add32(Array[Mem_Cnt].Start, Array[Mem_Cnt].Size)
         THEN Mem_Cnt
         ELSE PopulateFind(Array, Start, Mem_Cnt + 1)

\* The bits of the bitmap of a chip segment: Alloc_Mem allocates Size/4+1
\* bytes for it (line 2363).
BitmapBits(Seg) == (Seg.Size \div 4 + 1) * 8

\* Populate_Mem.  The code calls Mark_Bitmap(Rel_Start/4,Size/4) without
\* the bitmap; the bitmap marked here is the one of the segment found.
\* The code marks without testing whether the bits are already set.  The
\* stores of Mark_Bitmap that fall behind the last byte of the bitmap are
\* no bits of it: over says that there were such stores.
Populate_Mem(map, Start, Size) ==
    LET Mem_Cnt == PopulateFind(map.Mem_Array, Start, 1)
    IN  IF Mem_Cnt > Len(map.Mem_Array) THEN [ret |-> -1, map |-> map, over |-> FALSE]
        ELSE IF Add32(map.Mem_Array[Mem_Cnt].Start, map.Mem_Array[Mem_Cnt].Size)
                    < Add32(Start, Size)
        THEN [ret |-> -1, map |-> map, over |-> FALSE]
        ELSE LET Rel_Start == Sub32(Start, map.Mem_Array[Mem_Cnt].Start)
                 Bits == BitmapBits(map.Mem_Array[Mem_Cnt])
                 Inside == IF Rel_Start \div 4 + Size \div 4 > Bits
                           THEN Bits - Rel_Start \div 4
                           ELSE Size \div 4
             IN  [ret |-> 0,
                  map |-> [map EXCEPT !.Mem_Bitmap[Mem_Cnt] =
                              Mark_Bitmap(@, Rel_Start \div 4, Inside)],
                  over |-> Inside < Size \div 4]

\* The inner loop of Fit_Mem over the candidate addresses of one chip
\* segment: the first address whose bits are clear, or -1.
RECURSIVE FitTry(_, _, _, _, _)
FitTry(Bitmap, Fit, Mem, Try_Addr, End_Addr) ==
    IF ~(Try_Addr < End_Addr) THEN -1
    ELSE IF Try_Bitmap(Bitmap, Sub32(Try_Addr, Fit.Start) \div 4, Mem.Size \div 4) = 0
         THEN Try_Addr
         ELSE FitTry(Bitmap, Fit, Mem, Add32(Try_Addr, Mem.Align), End_Addr)

\* Stands for the division by an Align of 0 in Fit_Mem, which returns
\* nothing
DivideByZero == -2

\* The outer loop of Fit_Mem over the chip segments, from Fit_Cnt on
RECURSIVE FitFrom(_, _, _)
FitFrom(map, Mem, Fit_Cnt) ==
    IF Fit_Cnt > Len(map.Mem_Array) THEN [ret |-> -1, map |-> map, Start |-> AUTO]
    ELSE LET Fit == map.Mem_Array[Fit_Cnt]
             Start_Addr == (Sub32(Add32(Fit.Start, Mem.Align), 1) \div Mem.Align) * Mem.Align
             End_Addr == (Add32(Fit.Start, Fit.Size) \div Mem.Align) * Mem.Align
             Found == FitTry(map.Mem_Bitmap[Fit_Cnt], Fit, Mem, Start_Addr,
                             Sub32(End_Addr, Mem.Size))
         IN  IF Mem.Size > Fit.Size THEN FitFrom(map, Mem, Fit_Cnt + 1)
             ELSE IF Mem.Align = 0 THEN [ret |-> DivideByZero, map |-> map, Start |-> AUTO]
             ELSE IF Mem.Size > Sub32(End_Addr, Start_Addr) THEN FitFrom(map, Mem, Fit_Cnt + 1)
             ELSE IF Found = -1 THEN FitFrom(map, Mem, Fit_Cnt + 1)
             ELSE [ret |-> 0,
                   map |-> [map EXCEPT !.Mem_Bitmap[Fit_Cnt] =
                               Mark_Bitmap(@, Sub32(Found, Fit.Start) \div 4, Mem.Size \div 4)],
                   Start |-> Found]

\* Fit_Mem for the entry Mem_Num of Proc_Mem_Array
Fit_Mem(map, Mem_Num) == FitFrom(map, map.Proc_Mem_Array[Mem_Num], 1)

\* The first loops of Alloc_Mem: the chip segments of the type, inserted
\* one by one into an array of Length entries, sorted by start address.
RECURSIVE ChipInsertFrom(_, _, _, _, _)
ChipInsertFrom(chip, Array, Length, Type, Mem_Cnt) ==
    IF Mem_Cnt > Len(chip) THEN [ret |-> 0, Array |-> Array]
    ELSE IF chip[Mem_Cnt].Type # Type THEN ChipInsertFrom(chip, Array, Length, Type, Mem_Cnt + 1)
    ELSE LET r == Insert_Mem(Array, Length, chip[Mem_Cnt], 0)
         IN  IF r.ret # 0 THEN r
             ELSE ChipInsertFrom(chip, r.Array, Length, Type, Mem_Cnt + 1)

\* The segments of the processes that have the type, in loop order
TypedRefs(proj, Type) ==
    SelectSeq(MemRefs(proj), LAMBDA r : proj[r[1]].Mem[r[2]].Type = Type)

\* The two Populate_Mem calls for the kernel and the runtime.  For data the
\* code passes RME.Code_Start, not RME.Data_Start.
PopulateKernel(map, rme, rvm, Type) ==
    LET Size1 == IF Type = MEM_CODE THEN rme.Code_Size ELSE rme.Data_Size
        Size2 == IF Type = MEM_CODE THEN rvm.Code_Size ELSE rvm.Data_Size
        r1 == Populate_Mem(map, rme.Code_Start, Size1)
    IN  IF r1.ret # 0 THEN r1
        ELSE Populate_Mem(r1.map, Add32(rme.Code_Start, Size1), Size2)

\* The loop that populates every segment with a designated start
RECURSIVE PopulateFixedFrom(_, _, _, _)
PopulateFixedFrom(map, proj, refs, i) ==
    IF i > Len(refs) THEN [ret |-> 0, map |-> map]
    ELSE LET Mem == proj[refs[i][1]].Mem[refs[i][2]]
             r == Populate_Mem(map, Mem.Start, Mem.Size)
         IN  IF Mem.Start = AUTO THEN PopulateFixedFrom(map, proj, refs, i + 1)
             ELSE IF r.ret # 0 THEN r
             ELSE PopulateFixedFrom(r.map, proj, refs, i + 1)

\* The loop that sorts the Auto segments by size into Proc_Mem_Array
RECURSIVE AutoInsertFrom(_, _, _, _, _)
AutoInsertFrom(Array, Length, proj, refs, i) ==
    IF i > Len(refs) THEN [ret |-> 0, Array |-> Array]
    ELSE LET Mem == proj[refs[i][1]].Mem[refs[i][2]]
             r == Insert_Mem(Array, Length,
                             [Start |-> Mem.Start, Size |-> Mem.Size,
                              Align |-> Mem.Align, ref |-> refs[i]], 1)
         IN  IF Mem.Start # AUTO THEN AutoInsertFrom(Array, Length, proj, refs, i + 1)
             ELSE IF r.ret # 0 THEN r
             ELSE AutoInsertFrom(r.Array, Length, proj, refs, i + 1)

\* The loop that fits the entries of Proc_Mem_Array in array order; a fit
\* writes the start address through the pointer into the project (an entry
\* that is no segment of the project has the ref <<0, 0>>).
RECURSIVE FitAllFrom(_, _, _)
FitAllFrom(map, proj, Mem_Cnt) ==
    IF Mem_Cnt > Len(map.Proc_Mem_Array) THEN [ret |-> 0, map |-> map, proj |-> proj]
    ELSE LET r == Fit_Mem(map, Mem_Cnt)
             ref == map.Proc_Mem_Array[Mem_Cnt].ref
         IN  IF r.ret # 0 THEN [ret |-> r.ret, map |-> map, proj |-> proj]
             ELSE FitAllFrom([r.map EXCEPT !.Proc_Mem_Array[Mem_Cnt].Start = r.Start],
                             IF ref[1] = 0 THEN proj
                             ELSE [proj EXCEPT ![ref[1]].Mem[ref[2]].Start = r.Start],
                             Mem_Cnt + 1)

\* What the block holds that malloc returns for Proc_Mem_Array, which the
\* code does not clear (line 2405): null pointers ("zero"); a pointer that
\* cannot be followed ("wild"); or, in its first entry, a pointer left from
\* an earlier use of the block ("stale"), which leads to words that are
\* read as the Size and the Align of a segment.  Fault says whether the
\* store behind the array, which Insert_Mem then makes, faults.
BlockChoice ==
    {[kind |-> k, Size |-> 0, Align |-> 0, Fault |-> FALSE] : k \in {"zero", "wild"}}
    \cup {[kind |-> "stale", Size |-> g, Align |-> a, Fault |-> f] :
             g \in Indeterminate, a \in Indeterminate, f \in BOOLEAN}

\* The entries in use of the block of Length entries ahead of the first
\* Insert_Mem
BlockEntries(Block, Length) ==
    IF Block.kind = "stale" /\ Length > 0
    THEN << [Start |-> 0, Size |-> Block.Size, Align |-> Block.Align, ref |-> <<0, 0>>] >>
    ELSE <<>>

\* Alloc_Mem for one memory type, with Block the block malloc returned for
\* Proc_Mem_Array.
\* (The code ends by freeing Map->Proc_Mem_Bitmap[..], a field struct
\* Mem_Map does not have; that statement is left out.)
Alloc_Mem(proj, chip, rme, rvm, Type, Block) ==
    LET refs == TypedRefs(proj, Type)
        Count == Len(SelectSeq(chip, LAMBDA c : c.Type = Type))
        Sorted == ChipInsertFrom(chip, <<>>, Count, Type, 1)
        map0 == [Mem_Array |-> Sorted.Array,
                 Mem_Bitmap |-> [i \in 1..Len(Sorted.Array) |-> {}],
                 Proc_Mem_Array |-> <<>>]
        k == PopulateKernel(map0, rme, rvm, Type)
        f == PopulateFixedFrom(k.map, proj, refs, 1)
        AutoNum == Len(SelectSeq(refs, LAMBDA r : proj[r[1]].Mem[r[2]].Start = AUTO))
        a == AutoInsertFrom(BlockEntries(Block, AutoNum), AutoNum, proj, refs, 1)
        fit == FitAllFrom([f.map EXCEPT !.Proc_Mem_Array = a.Array], proj, 1)
    IN  IF Type # MEM_CODE /\ Type # MEM_DATA
        THEN [out |-> "fail", msg |-> "Wrong fitting type.", proj |-> proj, map |-> NoMap]
        ELSE IF Sorted.ret # 0
        THEN [out |-> "fail", msg |-> "Code memory insertion sort failed.",
              proj |-> proj, map |-> map0]
        ELSE IF k.ret # 0
        THEN [out |-> "fail", msg |-> "Invalid address designated.", proj |-> proj, map |-> map0]
        ELSE IF f.ret # 0
        THEN [out |-> "fail", msg |-> "Invalid address designated.", proj |-> proj, map |-> f.map]
        ELSE IF AutoNum > 0 /\ Block.kind = "wild"
        THEN [out |-> "crash", msg |-> "", proj |-> proj, map |-> f.map]
        ELSE IF a.ret # 0
        THEN [out |-> "fail", msg |-> "Code memory insertion sort failed.",
              proj |-> proj, map |-> f.map]
        ELSE IF AutoNum > 0 /\ Block.kind = "stale" /\ Block.Fault
        THEN [out |-> "crash", msg |-> "", proj |-> proj, map |-> f.map]
        ELSE IF fit.ret = DivideByZero
        THEN [out |-> "crash", msg |-> "", proj |-> proj, map |-> fit.map]
        ELSE IF fit.ret # 0
        THEN [out |-> "fail", msg |-> "Memory fitter failed.", proj |-> proj, map |-> fit.map]
        ELSE [out |-> "ok", msg |-> "", proj |-> fit.proj, map |-> fit.map]

(***************************************************************************)
(* Specification Spec: ingestion of the memory description, alignment and  *)
(* placement (main, lines 2966-2978)                                       *)
(***************************************************************************)
\* Chip memory: two code segments declared out of address order and one
\* data segment; or one address range declared both as code and as data.
ChipSplit ==
    << [Start |-> 768, Size |-> 128, Type |-> MEM_CODE],
       [Start |-> 256, Size |-> 256, Type |-> MEM_CODE],
       [Start |-> 2048, Size |-> 256, Type |-> MEM_DATA] >>
ChipShared ==
    << [Start |-> 256, Size |-> 256, Type |-> MEM_CODE],
       [Start |-> 256, Size |-> 256, Type |-> MEM_DATA] >>
ChipChoices == {ChipSplit, ChipShared}

RMEChoice == [Code_Start |-> 256, Code_Size |-> 64, Data_Start |-> 2048, Data_Size |-> 32]
RVMChoice == [Code_Size |-> 32, Data_Size |-> 32, Captbl_Frontier |-> Unset, Captbl |-> <<>>]

\* The values a process memory segment is declared with
MemStarts == {AUTO, 288, 384}
MemSizes == {0, 32, 64, 256}
MemTypes == {MEM_CODE, MEM_DATA}

TotalMem(proj) == Len(MemRefs(proj))

InitMem ==
    /\ pc = "parse"
    /\ res = ""
    /\ Chip \in ChipChoices
    /\ RME = RMEChoice
    /\ RVM = RVMChoice
    /\ Proj = <<>>
    /\ Map = NoMap
    /\ Pgtbl = <<>>
    /\ Mem_List = NoList
    /\ Arg = <<>>
    /\ Ret = <<>>

\* Parse_Process reaches the memory section of the next process: every
\* process declares at least one segment (line 1626), which
\* Parse_Process_Memory reads.  Align is not written by the parser.
ParseProcessMem ==
    /\ pc = "parse"
    /\ Len(Proj) < MaxProc
    /\ TotalMem(Proj) < MaxMem
    /\ \E Start \in MemStarts, Size \in MemSizes, Type \in MemTypes, Align \in Indeterminate :
          Proj' = Append(Proj, [NewProc(ProcName(Len(Proj) + 1)) EXCEPT !.Mem =
                      << [Start |-> Start, Size |-> Size, Type |-> Type,
                          Attr |-> 0, Align |-> Align] >>])
    /\ UNCHANGED <<pc, res, Chip, RME, RVM, Map, Pgtbl, Mem_List, Arg, Ret>>

\* Parse_Process_Memory for a further segment of the process being parsed
ParseMoreMem ==
    /\ pc = "parse"
    /\ Len(Proj) > 0
    /\ TotalMem(Proj) < MaxMem
    /\ \E Start \in MemStarts, Size \in MemSizes, Type \in MemTypes, Align \in Indeterminate :
          Proj' = [Proj EXCEPT ![Len(Proj)].Mem = Append(@,
                      [Start |-> Start, Size |-> Size, Type |-> Type,
                       Attr |-> 0, Align |-> Align])]
    /\ UNCHANGED <<pc, res, Chip, RME, RVM, Map, Pgtbl, Mem_List, Arg, Ret>>

\* Parse_Project returns: the project has at least one process (line 1786)
ParseDoneMem ==
    /\ pc = "parse"
    /\ Len(Proj) > 0
    /\ pc' = "align"
    /\ UNCHANGED <<res, Chip, RME, RVM, Proj, Map, Pgtbl, Mem_List, Arg, Ret>>

\* main calls Align_Mem(Proj, A7M_Align)
DoAlignMem ==
    /\ pc = "align"
    /\ LET r == Align_Mem(Proj)
       IN  /\ pc' = IF r.out = "ok" THEN "alloc_code" ELSE r.out
           /\ res' = r.msg
           /\ Proj' = r.proj
    /\ UNCHANGED <<Chip, RME, RVM, Map, Pgtbl, Mem_List, Arg, Ret>>

\* main calls Alloc_Mem(Proj, MEM_CODE)
DoAllocCode ==
    /\ pc = "alloc_code"
    /\ \E Block \in BlockChoice :
          LET r == Alloc_Mem(Proj, Chip, RME, RVM, MEM_CODE, Block)
          IN  /\ pc' = IF r.out = "ok" THEN "alloc_data" ELSE r.out
              /\ res' = r.msg
              /\ Proj' = r.proj
              /\ Map' = r.map
    /\ UNCHANGED <<Chip, RME, RVM, Pgtbl, Mem_List, Arg, Ret>>

\* main calls Alloc_Mem(Proj, MEM_DATA)
DoAllocData ==
    /\ pc = "alloc_data"
    /\ \E Block \in BlockChoice :
          LET r == Alloc_Mem(Proj, Chip, RME, RVM, MEM_DATA, Block)
          IN  /\ pc' = IF r.out = "ok" THEN "placed" ELSE r.out
              /\ res' = r.msg
              /\ Proj' = r.proj
              /\ Map' = r.map
    /\ UNCHANGED <<Chip, RME, RVM, Pgtbl, Mem_List, Arg, Ret>>

NextMem ==
    \/ ParseProcessMem
    \/ ParseMoreMem
    \/ ParseDoneMem
    \/ DoAlignMem
    \/ DoAllocCode
    \/ DoAllocData

Spec == InitMem /\ [][NextMem]_vars

(***************************************************************************)
(* Properties of memory placement                                          *)
(***************************************************************************)
\* Two address ranges [Start, Start + Size) share a byte
Overlaps(a, b) ==
    /\ a.Size > 0
    /\ b.Size > 0
    /\ a.Start < b.Start + b.Size
    /\ b.Start < a.Start + a.Size

\* The range [Start, Start + Size) lies inside one chip segment of the type
InsideChip(Mem, Type) ==
    \E i \in 1..Len(Chip) :
        /\ Chip[i].Type = Type
        /\ Chip[i].Start <= Mem.Start
        /\ Mem.Start + Mem.Size <= Chip[i].Start + Chip[i].Size

SegAt(r) == Proj[r[1]].Mem[r[2]]

\* The index pairs of the segments of a type, as a set
TypedRefSet(Type) == {r \in {MemRefs(Proj)[i] : i \in 1..Len(MemRefs(Proj))} : SegAt(r).Type = Type}

\* The segments of the type of the last Alloc_Mem call that were placed from
\* Auto (they are the entries of Proc_Mem_Array), and those that were not
AutoRefSet == {Map.Proc_Mem_Array[i].ref : i \in 1..Len(Map.Proc_Mem_Array)}
FixedRefSet(Type) == TypedRefSet(Type) \ AutoRefSet

PairwiseDisjoint(Type) ==
    \A r1, r2 \in TypedRefSet(Type) : r1 # r2 => ~Overlaps(SegAt(r1), SegAt(r2))

\* C1: once Alloc_Mem has completed for code (resp. for data), the address
\* ranges of all process segments of that kind, declared with a start or
\* placed from Auto, are pairwise disjoint.
C1_PlacedDisjoint ==
    /\ pc \in {"alloc_data", "placed"} => PairwiseDisjoint(MEM_CODE)
    /\ pc = "placed" => PairwiseDisjoint(MEM_DATA)

\* C2: once placement has succeeded, every code or data segment has a
\* concrete start that is a multiple of its align, a size above zero, and a
\* range inside one chip segment of its kind.
C2_PlacedWellFormed ==
    pc = "placed" =>
        \A Type \in {MEM_CODE, MEM_DATA} : \A r \in TypedRefSet(Type) :
            /\ SegAt(r).Start # AUTO
            /\ SegAt(r).Align # 0
            /\ SegAt(r).Start % SegAt(r).Align = 0
            /\ SegAt(r).Size > 0
            /\ InsideChip(SegAt(r), Type)

\* The code sections of the kernel and of the runtime that follows it
KernelCode == [Start |-> RME.Code_Start, Size |-> RME.Code_Size]
RuntimeCode == [Start |-> RME.Code_Start + RME.Code_Size, Size |-> RVM.Code_Size]

\* C3: Alloc_Mem never completes for code with a segment of designated
\* start that overlaps the kernel section, the runtime section or another
\* designated segment, or that does not lie inside one code chip segment.
C3_FixedOverlapAborts ==
    pc = "alloc_data" =>
        \A r \in FixedRefSet(MEM_CODE) :
            /\ ~Overlaps(SegAt(r), KernelCode)
            /\ ~Overlaps(SegAt(r), RuntimeCode)
            /\ \A q \in FixedRefSet(MEM_CODE) : q # r => ~Overlaps(SegAt(r), SegAt(q))
            /\ InsideChip(SegAt(r), MEM_CODE)

(***************************************************************************)
(* Strings and name checks (Strcicmp, Validate_Name)                       *)
(***************************************************************************)
\* A string is the sequence of its character codes, without the terminator.
\* Get_String never returns an empty string (line 881).
\* The null pointer, and a pointer that was never written
NULL == <<0>>
Wild == <<1>>

\* Largest value of an uninitialised string index that still reads memory
\* next to the strings
MaxCount == 2

tolower(c) == IF c \in 65..90 THEN c + 32 ELSE c

\* The bytes a read of Str[Count] can yield: the character, the terminator,
\* or whatever lies behind the terminator
CharAt(Str, Count) ==
    IF Count < Len(Str) THEN {Str[Count + 1]}
    ELSE IF Count = Len(Str) THEN {0}
    ELSE Indeterminate

\* One turn of the loop of Strcicmp at index Count: the loop never advances
\* Count, so a pair of equal characters that are not the terminator repeats
\* forever
StrcicmpAt(b1, b2) ==
    LET Result == tolower(b1) - tolower(b2)
    IN  IF Result # 0 THEN <<"ret", Result>>
        ELSE IF b1 = 0 THEN <<"ret", 0>>
        ELSE <<"hang", 0>>

\* Strcicmp reads Count without ever writing it.  The result is the set of
\* outcomes over the values Count can hold: <<"ret", r>> returns r,
\* <<"hang", 0>> never returns, <<"crash", 0>> faults on the read.
Strcicmp(Str1, Str2) ==
    IF Str1 = NULL \/ Str2 = NULL THEN {<<"crash", 0>>}
    ELSE IF Str1 = Wild \/ Str2 = Wild
    THEN {<<"ret", 0>>, <<"ret", 1>>, <<"hang", 0>>, <<"crash", 0>>}
    ELSE UNION { {StrcicmpAt(b1, b2) : b1 \in CharAt(Str1, Count), b2 \in CharAt(Str2, Count)}
                 \cup (IF Count > Len(Str1) \/ Count > Len(Str2) THEN {<<"crash", 0>>} ELSE {})
                 : Count \in 0..MaxCount }

IsDigit(c) == c \in 48..57
IsIdentChar(c) == c \in 97..122 \/ c \in 65..90 \/ c \in 48..57 \/ c = 95

\* The loop of Validate_Name from index Count (already incremented)
RECURSIVE ValidateFrom(_, _)
ValidateFrom(Name, Count) ==
    IF Count >= Len(Name) THEN 0
    ELSE IF IsIdentChar(Name[Count + 1]) THEN ValidateFrom(Name, Count + 1)
    ELSE -1

\* For the empty string the first read, Name[1], is the byte behind the
\* terminator: the loop returns on a terminator there, breaks on a byte
\* that is no identifier character, or faults.
Validate_Name(Name) ==
    IF Name = NULL \/ Name = Wild THEN {<<"crash", 0>>}
    ELSE IF Name = <<>>
    THEN {<<"ret", IF b = 0 THEN 0 ELSE -1>> : b \in Indeterminate} \cup {<<"crash", 0>>}
    ELSE IF IsDigit(Name[1]) THEN {<<"ret", -1>>}
    ELSE {<<"ret", ValidateFrom(Name, 1)>>}

(***************************************************************************)
(* Conditions and checks whose operands have several possible outcomes     *)
(***************************************************************************)
\* The outcomes of a condition: "T", "F", or the way its evaluation ended
IsZero(S) == {IF o[1] = "ret" THEN (IF o[2] = 0 THEN "T" ELSE "F") ELSE o[1] : o \in S}
NotZero(S) == {IF o[1] = "ret" THEN (IF o[2] # 0 THEN "T" ELSE "F") ELSE o[1] : o \in S}
Const(b) == {IF b THEN "T" ELSE "F"}
\* c1 && c2: c2 is evaluated only when c1 holds
And(c1, c2) == (c1 \ {"T"}) \cup (IF "T" \in c1 THEN c2 ELSE {})

Pass == [out |-> "pass", msg |-> ""]
\* if(c) EXIT_FAIL(msg);
FailIf(c, msg) ==
    {IF x = "T" THEN [out |-> "fail", msg |-> msg]
     ELSE IF x = "F" THEN Pass
     ELSE [out |-> x, msg |-> ""] : x \in c}

\* A sequence of checks run in order: the run ends at the first check that
\* does not pass
RECURSIVE RunFrom(_, _)
RunFrom(Checks, i) ==
    IF i > Len(Checks) THEN {Pass}
    ELSE (Checks[i] \ {Pass}) \cup (IF Pass \in Checks[i] THEN RunFrom(Checks, i + 1) ELSE {})

RunChecks(Checks) == RunFrom(Checks, 1)

(***************************************************************************)
(* Name conflict detection (Detect_Handler, Detect_Conflict)               *)
(***************************************************************************)
\* The index pairs <<process, object>> of all objects of one list of the
\* processes ("Thd", "Inv", "Port" or "Endp"), in the order of the nested
\* loops of the code
RECURSIVE ObjRefsFrom(_, _, _, _)
ObjRefsFrom(proj, List, p, o) ==
    IF p > Len(proj) THEN <<>>
    ELSE IF o > Len(proj[p][List]) THEN ObjRefsFrom(proj, List, p + 1, 1)
    ELSE <<<<p, o>>>> \o ObjRefsFrom(proj, List, p, o + 1)

ObjRefs(proj, List) == ObjRefsFrom(proj, List, 1, 1)

\* The word a pointer occupies: 0 for the null pointer, else the address of
\* a heap block, which is aligned
PtrWord(Str) == IF Str = NULL THEN {0} ELSE {8, 16}

\* Endp=&(Proc->Port[Obj_Cnt]) (line 2523): the element of the port array
\* read as a struct Endp_Info.  Name overlays the name of the port and Type
\* overlays its Process pointer.  Past the end of the port array (Obj_Cnt
\* runs to Endp_Num) both fields are whatever the heap holds.
EndpView(Proc, Obj_Cnt) ==
    IF Obj_Cnt <= Len(Proc.Port)
    THEN {[Name |-> Proc.Port[Obj_Cnt].Name, Type |-> t] : t \in PtrWord(Proc.Port[Obj_Cnt].Process)}
    ELSE {[Name |-> Wild, Type |-> t] : t \in {0, ENDP_HANDLER}}

\* The body of the loop over Obj_Cnt in Detect_Handler for one reading
HandlerCheck(proj, View) ==
    IF View.Type # ENDP_HANDLER THEN {Pass}
    ELSE LET refs == ObjRefs(proj, "Endp")
         IN  RunChecks([i \in 1..Len(refs) |->
                 FailIf(IsZero(Strcicmp(proj[refs[i][1]].Endp[refs[i][2]].Name, View.Name)),
                        "Duplicate handlers found.")])

Detect_Handler(proj) ==
    LET refs == ObjRefs(proj, "Endp")
    IN  RunChecks([i \in 1..Len(refs) |->
            UNION {HandlerCheck(proj, View) : View \in EndpView(proj[refs[i][1]], refs[i][2])}])

\* The checks on the name of process Proc_Cnt
ProcNameChecks(proj, Proc_Cnt) ==
    <<FailIf(NotZero(Validate_Name(proj[Proc_Cnt].Name)), "Invalid process name.")>>
    \o [Count \in 1..Len(proj) |->
           FailIf(And(Const(Count # Proc_Cnt),
                      IsZero(Strcicmp(proj[Proc_Cnt].Name, proj[Count].Name))),
                  "Duplicate process name.")]

\* The checks on thread or invocation Obj_Cnt of a list of a process
NamedChecks(Objs, Obj_Cnt, Invalid, Duplicate) ==
    <<FailIf(NotZero(Validate_Name(Objs[Obj_Cnt].Name)), Invalid)>>
    \o [Count \in 1..Len(Objs) |->
           FailIf(And(Const(Count # Obj_Cnt),
                      IsZero(Strcicmp(Objs[Count].Name, Objs[Obj_Cnt].Name))),
                  Duplicate)]

\* The checks on port Obj_Cnt of a process.  Line 2594 compares the name of
\* the port, not the process it targets, with the name of the process.
PortChecks(Proc, Obj_Cnt) ==
    LET Port == Proc.Port
    IN  <<FailIf(NotZero(Validate_Name(Port[Obj_Cnt].Name)), "Invalid port name."),
          FailIf(NotZero(Validate_Name(Port[Obj_Cnt].Process)), "Invalid port process name."),
          FailIf(IsZero(Strcicmp(Port[Obj_Cnt].Name, Proc.Name)),
                 "Port cannot target within the same process.")>>
        \o [Count \in 1..Len(Port) |->
               FailIf(And(Const(Count # Obj_Cnt),
                          And(IsZero(Strcicmp(Port[Count].Name, Port[Obj_Cnt].Name)),
                              IsZero(Strcicmp(Port[Count].Process, Port[Obj_Cnt].Process)))),
                      "Duplicate port name")]

\* The checks on endpoint Obj_Cnt of a process
EndpChecks(Proc, Obj_Cnt) ==
    LET Endp == Proc.Endp
    IN  <<FailIf(NotZero(Validate_Name(Endp[Obj_Cnt].Name)), "Invalid endpoint name."),
          IF Endp[Obj_Cnt].Type = ENDP_SEND
          THEN FailIf(NotZero(Validate_Name(Endp[Obj_Cnt].Process)), "Invalid endpoint process name.")
          ELSE {Pass}>>
        \o [Count \in 1..Len(Endp) |->
               IF Count = Obj_Cnt THEN {Pass}
               ELSE IF Endp[Count].Type = ENDP_RECEIVE /\ Endp[Obj_Cnt].Type = ENDP_RECEIVE
               THEN FailIf(IsZero(Strcicmp(Endp[Count].Name, Endp[Obj_Cnt].Name)),
                           "Duplicate receive or endpoint name")
               ELSE IF Endp[Count].Type = ENDP_SEND /\ Endp[Obj_Cnt].Type = ENDP_SEND
               THEN FailIf(And(IsZero(Strcicmp(Endp[Count].Name, Endp[Obj_Cnt].Name)),
                               IsZero(Strcicmp(Endp[Count].Process, Endp[Obj_Cnt].Process))),
                           "Duplicate send endpoint name")
               ELSE {Pass}]

\* The body of the loop over Proc_Cnt in Detect_Conflict
ProcChecks(proj, Proc_Cnt) ==
    LET Proc == proj[Proc_Cnt]
    IN  <<RunChecks(ProcNameChecks(proj, Proc_Cnt))>>
        \o [o \in 1..Len(Proc.Thd) |->
               RunChecks(NamedChecks(Proc.Thd, o, "Invalid thread name.", "Duplicate thread name."))]
        \o [o \in 1..Len(Proc.Inv) |->
               RunChecks(NamedChecks(Proc.Inv, o, "Invalid invocation name.", "Duplicate invocation name"))]
        \o [o \in 1..Len(Proc.Port) |-> RunChecks(PortChecks(Proc, o))]
        \o [o \in 1..Len(Proc.Endp) |-> RunChecks(EndpChecks(Proc, o))]

\* The set of ways Detect_Conflict can end: Pass (it returns), fail with the
\* message of an EXIT_FAIL, hang, crash
Detect_Conflict(proj) ==
    RunChecks([Proc_Cnt \in 1..Len(proj) |-> RunChecks(ProcChecks(proj, Proc_Cnt))]
              \o <<Detect_Handler(proj)>>)

(***************************************************************************)
(* Local and global capability identifiers (Alloc_Local_ID,                *)
(* Get_Global_Number, Alloc_Global_ID)                                     *)
(***************************************************************************)
\* One of the four loops of Alloc_Local_ID: the objects of a list take the
\* values of the counter from Capid on
LocalFill(Objs, Capid) == [Obj_Cnt \in 1..Len(Objs) |-> [Objs[Obj_Cnt] EXCEPT !.Capid = Capid + Obj_Cnt - 1]]

\* Alloc_Local_ID with the loop over the endpoints ahead of the loop over
\* the ports
LocalProc_EndpBeforePort(Proc) ==
    LET Thd == LocalFill(Proc.Thd, 0)
        Inv == LocalFill(Proc.Inv, Len(Thd))
        Endp == LocalFill(Proc.Endp, Len(Thd) + Len(Inv))
        Port == LocalFill(Proc.Port, Len(Thd) + Len(Inv) + Len(Endp))
    IN  [Proc EXCEPT !.Thd = Thd, !.Inv = Inv, !.Port = Port, !.Endp = Endp,
                     !.Captbl_Frontier = Len(Thd) + Len(Inv) + Len(Port) + Len(Endp)]

\* The body of the loop over Proc_Cnt in Alloc_Local_ID
LocalProc(Proc) ==
    LET Thd == LocalFill(Proc.Thd, 0)
        Inv == LocalFill(Proc.Inv, Len(Thd))
        Port == LocalFill(Proc.Port, Len(Thd) + Len(Inv))
        Endp == LocalFill(Proc.Endp, Len(Thd) + Len(Inv) + Len(Port))
    IN  [Proc EXCEPT !.Thd = Thd, !.Inv = Inv, !.Port = Port, !.Endp = Endp,
                     !.Captbl_Frontier = Len(Thd) + Len(Inv) + Len(Port) + Len(Endp)]

Alloc_Local_ID(proj) == [Proc_Cnt \in 1..Len(proj) |-> LocalProc(proj[Proc_Cnt])]

\* The receive endpoints among the endpoints, in the order of the loops
ReceiveRefs(proj) ==
    SelectSeq(ObjRefs(proj, "Endp"), LAMBDA r : proj[r[1]].Endp[r[2]].Type = ENDP_RECEIVE)

RECURSIVE GlobalNumberFrom(_, _)
GlobalNumberFrom(proj, Proc_Cnt) ==
    IF Proc_Cnt > Len(proj) THEN 0
    ELSE Len(proj[Proc_Cnt].Thd) + Len(proj[Proc_Cnt].Inv)
         + Len(SelectSeq(proj[Proc_Cnt].Endp, LAMBDA e : e.Type = ENDP_RECEIVE))
         + GlobalNumberFrom(proj, Proc_Cnt + 1)

\* Get_Global_Number counting every endpoint, whatever its type
Get_Global_Number_AllEndp(proj) ==
    Len(proj) + Len(proj) + Len(ObjRefs(proj, "Thd")) + Len(ObjRefs(proj, "Inv"))
    + Len(ObjRefs(proj, "Endp"))

Get_Global_Number(proj) == Len(proj) + Len(proj) + GlobalNumberFrom(proj, 1)

\* The store of the global identifier into the object an entry stands for
SetGlobal(proj, Type, r, Capid) ==
    CASE Type = CAP_CAPTBL -> [proj EXCEPT ![r[1]].RVM_Captbl_Capid = Capid]
      [] Type = CAP_PROC -> [proj EXCEPT ![r[1]].RVM_Proc_Capid = Capid]
      [] Type = CAP_THD -> [proj EXCEPT ![r[1]].Thd[r[2]].RVM_Capid = Capid]
      [] Type = CAP_INV -> [proj EXCEPT ![r[1]].Inv[r[2]].RVM_Capid = Capid]
      [] OTHER -> [proj EXCEPT ![r[1]].Endp[r[2]].RVM_Capid = Capid]

\* One of the five fill loops of Alloc_Global_ID over the objects refs, from
\* position i.  st holds the project and the table; Capid is the length of
\* the table filled so far.
RECURSIVE GlobalFill(_, _, _, _)
GlobalFill(st, refs, Type, i) ==
    IF i > Len(refs) THEN st
    ELSE LET Capid == Len(st.Captbl)
         IN  GlobalFill([proj |-> SetGlobal(st.proj, Type, refs[i], Capid),
                         Captbl |-> Append(st.Captbl,
                                        [Proc |-> refs[i][1], Type |-> Type, Cap |-> refs[i]])],
                        refs, Type, i + 1)

\* Alloc_Global_ID with the loop over the invocations ahead of the loop over
\* the threads
Alloc_Global_ID_InvFirst(proj, rvm, Malloced) ==
    LET Frontier == Get_Global_Number(proj)
        procs == [Proc_Cnt \in 1..Len(proj) |-> <<Proc_Cnt, 0>>]
        s1 == GlobalFill([proj |-> proj, Captbl |-> <<>>], procs, CAP_CAPTBL, 1)
        s2 == GlobalFill(s1, procs, CAP_PROC, 1)
        s3 == GlobalFill(s2, ObjRefs(proj, "Inv"), CAP_INV, 1)
        s4 == GlobalFill(s3, ObjRefs(proj, "Thd"), CAP_THD, 1)
        s5 == GlobalFill(s4, ReceiveRefs(proj), CAP_ENDP, 1)
        filled == [rvm EXCEPT !.Captbl_Frontier = Frontier, !.Captbl = s5.Captbl]
    IN  IF ~Malloced
        THEN [out |-> "fail", msg |-> "Global capability table allocation failed.",
              proj |-> proj, rvm |-> [rvm EXCEPT !.Captbl_Frontier = Frontier]]
        ELSE [out |-> "pass", msg |-> "", proj |-> s5.proj, rvm |-> filled]

\* Malloced says whether Malloc returned a block.  Result: out is "pass" or
\* "fail" (with the message), with the project and the RVM structure.
Alloc_Global_ID(proj, rvm, Malloced) ==
    LET Frontier == Get_Global_Number(proj)
        procs == [Proc_Cnt \in 1..Len(proj) |-> <<Proc_Cnt, 0>>]
        s1 == GlobalFill([proj |-> proj, Captbl |-> <<>>], procs, CAP_CAPTBL, 1)
        s2 == GlobalFill(s1, procs, CAP_PROC, 1)
        s3 == GlobalFill(s2, ObjRefs(proj, "Thd"), CAP_THD, 1)
        s4 == GlobalFill(s3, ObjRefs(proj, "Inv"), CAP_INV, 1)
        s5 == GlobalFill(s4, ReceiveRefs(proj), CAP_ENDP, 1)
        filled == [rvm EXCEPT !.Captbl_Frontier = Frontier, !.Captbl = s5.Captbl]
    IN  IF ~Malloced
        THEN [out |-> "fail", msg |-> "Global capability table allocation failed.",
              proj |-> proj, rvm |-> [rvm EXCEPT !.Captbl_Frontier = Frontier]]
        ELSE IF Frontier # Len(s5.Captbl)
        THEN [out |-> "fail", msg |-> "Internal global capability ID allocator failure.",
              proj |-> s5.proj, rvm |-> filled]
        ELSE [out |-> "pass", msg |-> "", proj |-> s5.proj, rvm |-> filled]

(***************************************************************************)
(* Back-propagation of global identifiers (Backprop_Global_ID)             *)
(***************************************************************************)
\* A search loop "for(i=0;i<n;i++) if(cond) break;": the set of ways it can
\* end.  <<"at", i>>: it breaks at i; <<"end", n + 1>>: it runs to the end;
\* <<"hang", i>>, <<"crash", i>>: the condition at i never returns, faults.
RECURSIVE SearchFrom(_, _)
SearchFrom(Conds, i) ==
    IF i > Len(Conds) THEN {<<"end", i>>}
    ELSE (IF "T" \in Conds[i] THEN {<<"at", i>>} ELSE {})
         \cup {<<x, i>> : x \in Conds[i] \ {"T", "F"}}
         \cup (IF "F" \in Conds[i] THEN SearchFrom(Conds, i + 1) ELSE {})

Stopped(x, proj) == [out |-> x, msg |-> "", proj |-> proj]
Failed(msg, proj) == [out |-> "fail", msg |-> msg, proj |-> proj]

\* The body of the loop over the ports (lines 2833-2850).  The process is
\* looked up under the name of the port (line 2836).
BackpropPort(proj, Proc_Cnt, Obj_Cnt) ==
    LET Port == proj[Proc_Cnt].Port[Obj_Cnt]
        Procs == SearchFrom([t \in 1..Len(proj) |-> IsZero(Strcicmp(proj[t].Name, Port.Name))], 1)
        InvOf(t) == SearchFrom([j \in 1..Len(proj[t].Inv) |->
                                   IsZero(Strcicmp(proj[t].Inv[j].Name, Port.Name))], 1)
    IN  UNION { IF s[1] = "end" THEN {Failed("Invalid process for port.", proj)}
                ELSE IF s[1] # "at" THEN {Stopped(s[1], proj)}
                ELSE { IF u[1] = "end"
                       THEN Failed("One of the ports does not have a corresponding invocation.", proj)
                       ELSE IF u[1] # "at" THEN Stopped(u[1], proj)
                       ELSE Stopped("pass", [proj EXCEPT ![Proc_Cnt].Port[Obj_Cnt].RVM_Capid =
                                                proj[s[2]].Inv[u[2]].RVM_Capid])
                       : u \in InvOf(s[2]) }
                : s \in Procs }

\* The body of the loop over the endpoints (lines 2855-2875).  The process
\* is looked up under the name of the endpoint (line 2860).
BackpropEndp(proj, Proc_Cnt, Obj_Cnt) ==
    LET Endp == proj[Proc_Cnt].Endp[Obj_Cnt]
        Procs == SearchFrom([t \in 1..Len(proj) |-> IsZero(Strcicmp(proj[t].Name, Endp.Name))], 1)
        EndpOf(t) == SearchFrom([j \in 1..Len(proj[t].Endp) |->
                                    And(IsZero(Strcicmp(proj[t].Endp[j].Name, Endp.Name)),
                                        Const(proj[t].Endp[j].Type = ENDP_RECEIVE))], 1)
    IN  IF Endp.Type # ENDP_SEND THEN {Stopped("pass", proj)}
        ELSE UNION {
                IF s[1] = "end" THEN {Failed("Invalid process for endpoint.", proj)}
                ELSE IF s[1] # "at" THEN {Stopped(s[1], proj)}
                ELSE { IF u[1] = "end"
                       THEN Failed("One of the send endpoints does not have a corresponding receive endpoint.", proj)
                       ELSE IF u[1] # "at" THEN Stopped(u[1], proj)
                       ELSE Stopped("pass", [proj EXCEPT ![Proc_Cnt].Endp[Obj_Cnt].RVM_Capid =
                                                proj[s[2]].Endp[u[2]].RVM_Capid])
                       : u \in EndpOf(s[2]) }
                : s \in Procs }

\* The ports and endpoints in the order Backprop_Global_ID visits them
RECURSIVE BackpropItems(_, _)
BackpropItems(proj, Proc_Cnt) ==
    IF Proc_Cnt > Len(proj) THEN <<>>
    ELSE [o \in 1..Len(proj[Proc_Cnt].Port) |-> <<"Port", Proc_Cnt, o>>]
         \o [o \in 1..Len(proj[Proc_Cnt].Endp) |-> <<"Endp", Proc_Cnt, o>>]
         \o BackpropItems(proj, Proc_Cnt + 1)

RECURSIVE BackpropFrom(_, _, _)
BackpropFrom(proj, Items, i) ==
    IF i > Len(Items) THEN {Stopped("pass", proj)}
    ELSE LET Step == IF Items[i][1] = "Port"
                     THEN BackpropPort(proj, Items[i][2], Items[i][3])
                     ELSE BackpropEndp(proj, Items[i][2], Items[i][3])
         IN  {r \in Step : r.out # "pass"}
             \cup UNION {BackpropFrom(r.proj, Items, i + 1) : r \in {x \in Step : x.out = "pass"}}

\* The set of ways Backprop_Global_ID can end, each with the project it
\* leaves
Backprop_Global_ID(proj) == BackpropFrom(proj, BackpropItems(proj, 1), 1)

(***************************************************************************)
(* Specification SpecCap: ingestion of the kernel objects and capability   *)
(* allocation (Parse_Process, Alloc_Captbl)                                *)
(***************************************************************************)
\* kernel objects of a project, over all its processes
MaxObj == 4

\* The processes a port or a send endpoint can name as its target
TargetNames == {ProcName(1), ProcName(2)}

TotalObj(proj) == Len(ObjRefs(proj, "Thd")) + Len(ObjRefs(proj, "Inv"))
                  + Len(ObjRefs(proj, "Port")) + Len(ObjRefs(proj, "Endp"))

\* The process being parsed has passed the check of line 1661
HasCode(Proc) == Len(Proc.Thd) + Len(Proc.Inv) > 0

\* A segment as placement leaves it
PlacedMem == [Start |-> 384, Size |-> 32, Type |-> MEM_CODE, Attr |-> 0, Align |-> 0]

InitCap ==
    /\ pc = "parse"
    /\ res = ""
    /\ Chip = ChipShared
    /\ RME = RMEChoice
    /\ RVM = RVMChoice
    /\ Proj = <<>>
    /\ Map = NoMap
    /\ Pgtbl = <<>>
    /\ Mem_List = NoList
    /\ Arg = <<>>
    /\ Ret = <<>>

\* Parse_Process starts on the next process: the general section
ParseProcess ==
    /\ pc = "parse"
    /\ Len(Proj) < MaxProc
    /\ Proj # <<>> => HasCode(Proj[Len(Proj)])
    /\ Proj' = Append(Proj, [NewProc(ProcName(Len(Proj) + 1)) EXCEPT !.Mem = <<PlacedMem>>])
    /\ UNCHANGED <<pc, res, Chip, RME, RVM, Map, Pgtbl, Mem_List, Arg, Ret>>

\* Parse_Thread for a further thread of the process being parsed
ParseThread ==
    /\ pc = "parse"
    /\ Proj # <<>>
    /\ TotalObj(Proj) < MaxObj
    /\ LET Proc == Proj[Len(Proj)]
       IN  /\ Proc.Inv = <<>> /\ Proc.Port = <<>> /\ Proc.Endp = <<>>
           /\ Proj' = [Proj EXCEPT ![Len(Proj)].Thd =
                             Append(@, [Name |-> ObjName(Len(Proc.Thd) + 1), Capid |-> Unset, RVM_Capid |-> Unset])]
    /\ UNCHANGED <<pc, res, Chip, RME, RVM, Map, Pgtbl, Mem_List, Arg, Ret>>

\* Parse_Invocation for a further invocation of the process being parsed
ParseInvocation ==
    /\ pc = "parse"
    /\ Proj # <<>>
    /\ TotalObj(Proj) < MaxObj
    /\ LET Proc == Proj[Len(Proj)]
       IN  /\ Proc.Port = <<>> /\ Proc.Endp = <<>>
           /\ Proj' = [Proj EXCEPT ![Len(Proj)].Inv =
                             Append(@, [Name |-> ObjName(Len(Proc.Inv) + 1), Capid |-> Unset, RVM_Capid |-> Unset])]
    /\ UNCHANGED <<pc, res, Chip, RME, RVM, Map, Pgtbl, Mem_List, Arg, Ret>>

\* Parse_Port for a further port of the process being parsed
ParsePort ==
    /\ pc = "parse"
    /\ Proj # <<>>
    /\ TotalObj(Proj) < MaxObj
    /\ LET Proc == Proj[Len(Proj)]
       IN  /\ HasCode(Proc)
           /\ Proc.Endp = <<>>
           /\ \E Process \in TargetNames :
                 Proj' = [Proj EXCEPT ![Len(Proj)].Port =
                             Append(@, [Name |-> ObjName(Len(Proc.Port) + 1), Process |-> Process,
                                        Capid |-> Unset, RVM_Capid |-> Unset])]
    /\ UNCHANGED <<pc, res, Chip, RME, RVM, Map, Pgtbl, Mem_List, Arg, Ret>>

\* Parse_Endpoint for a further endpoint of the process being parsed.  For
\* an endpoint that is not a send endpoint, line 1511 stores the null
\* pointer into Port[Endp_Num].Process: into the port of the same index if
\* there is one, else past the end of the port array, which either goes
\* unnoticed or faults.
ParseEndpoint ==
    /\ pc = "parse"
    /\ Proj # <<>>
    /\ TotalObj(Proj) < MaxObj
    /\ LET Proc == Proj[Len(Proj)]
           Endp_Num == Len(Proc.Endp) + 1
       IN  /\ HasCode(Proc)
           /\ \E Type \in {ENDP_SEND, ENDP_RECEIVE, ENDP_HANDLER},
                 Process \in TargetNames, Fault \in BOOLEAN :
                 LET Endp == [Name |-> ObjName(Endp_Num), Type |-> Type,
                              Process |-> IF Type = ENDP_SEND THEN Process ELSE Wild,
                              Capid |-> Unset, RVM_Capid |-> Unset]
                     Added == [Proc EXCEPT !.Endp = Append(@, Endp)]
                 IN  /\ Type # ENDP_SEND => Process = ProcName(1)
                     /\ IF Type = ENDP_SEND
                        THEN /\ ~Fault
                             /\ Proj' = [Proj EXCEPT ![Len(Proj)] = Added]
                             /\ pc' = pc
                        ELSE IF Endp_Num <= Len(Proc.Port)
                        THEN /\ ~Fault
                             /\ Proj' = [Proj EXCEPT ![Len(Proj)] =
                                            [Added EXCEPT !.Port[Endp_Num].Process = NULL]]
                             /\ pc' = pc
                        ELSE /\ Proj' = [Proj EXCEPT ![Len(Proj)] = Added]
                             /\ pc' = IF Fault THEN "crash" ELSE pc
    /\ UNCHANGED <<res, Chip, RME, RVM, Map, Pgtbl, Mem_List, Arg, Ret>>

\* Parse_Project returns
ParseDone ==
    /\ pc = "parse"
    /\ Proj # <<>>
    /\ HasCode(Proj[Len(Proj)])
    /\ pc' = "detect"
    /\ UNCHANGED <<res, Chip, RME, RVM, Proj, Map, Pgtbl, Mem_List, Arg, Ret>>

\* Alloc_Captbl calls Detect_Conflict
DoDetectConflict ==
    /\ pc = "detect"
    /\ \E r \in Detect_Conflict(Proj) :
          /\ pc' = IF r.out = "pass" THEN "local" ELSE r.out
          /\ res' = r.msg
    /\ UNCHANGED <<Chip, RME, RVM, Proj, Map, Pgtbl, Mem_List, Arg, Ret>>

\* Alloc_Captbl calls Alloc_Local_ID
DoAllocLocalID ==
    /\ pc = "local"
    /\ Proj' = Alloc_Local_ID(Proj)
    /\ pc' = "global"
    /\ UNCHANGED <<res, Chip, RME, RVM, Map, Pgtbl, Mem_List, Arg, Ret>>

\* Alloc_Captbl calls Alloc_Global_ID
DoAllocGlobalID ==
    /\ pc = "global"
    /\ \E Malloced \in BOOLEAN :
          LET r == Alloc_Global_ID(Proj, RVM, Malloced)
          IN  /\ pc' = IF r.out = "pass" THEN "backprop" ELSE r.out
              /\ res' = r.msg
              /\ Proj' = r.proj
              /\ RVM' = r.rvm
    /\ UNCHANGED <<Chip, RME, Map, Pgtbl, Mem_List, Arg, Ret>>

\* Alloc_Captbl calls Backprop_Global_ID
DoBackprop ==
    /\ pc = "backprop"
    /\ \E r \in Backprop_Global_ID(Proj) :
          /\ pc' = IF r.out = "pass" THEN "done" ELSE r.out
          /\ res' = r.msg
          /\ Proj' = r.proj
    /\ UNCHANGED <<Chip, RME, RVM, Map, Pgtbl, Mem_List, Arg, Ret>>

NextCap ==
    \/ ParseProcess
    \/ ParseThread
    \/ ParseInvocation
    \/ ParsePort
    \/ ParseEndpoint
    \/ ParseDone
    \/ DoDetectConflict
    \/ DoAllocLocalID
    \/ DoAllocGlobalID
    \/ DoBackprop

SpecCap == InitCap /\ [][NextCap]_vars

(***************************************************************************)
(* Properties of capability allocation                                     *)
(***************************************************************************)
RECURSIVE Lower(_)
Lower(Str) == IF Str = <<>> THEN <<>> ELSE <<tolower(Head(Str))>> \o Lower(Tail(Str))

\* Two names are equal when case is ignored
SameName(Str1, Str2) == Lower(Str1) = Lower(Str2)

RefSet(List) == {ObjRefs(Proj, List)[i] : i \in 1..Len(ObjRefs(Proj, List))}
ObjAt(List, r) == Proj[r[1]][List][r[2]]
EndpOfType(Type) == {r \in RefSet("Endp") : ObjAt("Endp", r).Type = Type}

\* C4: when back-propagation has completed, every port carries the global
\* identifier of an invocation that has the name of the port and is declared
\* in the process the port names as its target.
C4_PortResolved ==
    pc = "done" =>
        \A r \in RefSet("Port") :
            \E q \in RefSet("Inv") :
                /\ SameName(Proj[q[1]].Name, ObjAt("Port", r).Process)
                /\ SameName(ObjAt("Inv", q).Name, ObjAt("Port", r).Name)
                /\ ObjAt("Port", r).RVM_Capid = ObjAt("Inv", q).RVM_Capid

\* C5: when back-propagation has completed, every send endpoint carries the
\* global identifier of a receive endpoint that has its name and is declared
\* in the process the send endpoint names as its target.
C5_SendResolved ==
    pc = "done" =>
        \A r \in EndpOfType(ENDP_SEND) :
            \E q \in EndpOfType(ENDP_RECEIVE) :
                /\ SameName(Proj[q[1]].Name, ObjAt("Endp", r).Process)
                /\ SameName(ObjAt("Endp", q).Name, ObjAt("Endp", r).Name)
                /\ ObjAt("Endp", r).RVM_Capid = ObjAt("Endp", q).RVM_Capid

\* The global identifiers of one category, in process order and then in
\* declaration order
CaptblIds == [p \in 1..Len(Proj) |-> Proj[p].RVM_Captbl_Capid]
ProcIds == [p \in 1..Len(Proj) |-> Proj[p].RVM_Proc_Capid]
ThdIds == [i \in 1..Len(ObjRefs(Proj, "Thd")) |-> ObjAt("Thd", ObjRefs(Proj, "Thd")[i]).RVM_Capid]
InvIds == [i \in 1..Len(ObjRefs(Proj, "Inv")) |-> ObjAt("Inv", ObjRefs(Proj, "Inv")[i]).RVM_Capid]
RecvIds == [i \in 1..Len(ReceiveRefs(Proj)) |-> ObjAt("Endp", ReceiveRefs(Proj)[i]).RVM_Capid]
GlobalIds == CaptblIds \o ProcIds \o ThdIds \o InvIds \o RecvIds

\* The number of objects that take a global identifier
GlobalCount ==
    2 * Len(Proj) + Cardinality(RefSet("Thd")) + Cardinality(RefSet("Inv"))
    + Cardinality(EndpOfType(ENDP_RECEIVE))

GlobalAllocated == pc \in {"backprop", "done"}

\* C6: the frontier check of Alloc_Global_ID never ends the run, and once
\* Alloc_Global_ID has returned the global identifiers are pairwise distinct
\* and are exactly 0 .. N-1, where N = 2 * processes + threads + invocations
\* + receive endpoints, and the frontier of the table is N.
C6_GlobalDense ==
    /\ res # "Internal global capability ID allocator failure."
    /\ GlobalAllocated =>
          /\ Len(GlobalIds) = GlobalCount
          /\ {GlobalIds[i] : i \in 1..Len(GlobalIds)} = 0..(GlobalCount - 1)
          /\ RVM.Captbl_Frontier = GlobalCount
          /\ Len(RVM.Captbl) = GlobalCount

C6_Witness ==
    /\ pc = "backprop"
    /\ Len(Proj) = 2
    /\ EndpOfType(ENDP_RECEIVE) # {}
    /\ EndpOfType(ENDP_SEND) # {}

Ascending(Ids) == \A i, j \in 1..Len(Ids) : i < j => Ids[i] < Ids[j]
Below(Ids1, Ids2) == \A i \in 1..Len(Ids1) : \A j \in 1..Len(Ids2) : Ids1[i] < Ids2[j]

\* C7: once Alloc_Global_ID has returned, the identifiers of the capability
\* tables lie below those of the processes, those below the threads', those
\* below the invocations', those below the receive endpoints'; inside a
\* category they ascend in process order and then in declaration order; a
\* project of one process with one thread has table 0, process 1, thread 2.
C7_GlobalOrder ==
    GlobalAllocated =>
        /\ Below(CaptblIds, ProcIds) /\ Below(CaptblIds, ThdIds)
        /\ Below(CaptblIds, InvIds) /\ Below(CaptblIds, RecvIds)
        /\ Below(ProcIds, ThdIds) /\ Below(ProcIds, InvIds) /\ Below(ProcIds, RecvIds)
        /\ Below(ThdIds, InvIds) /\ Below(ThdIds, RecvIds)
        /\ Below(InvIds, RecvIds)
        /\ Ascending(CaptblIds) /\ Ascending(ProcIds) /\ Ascending(ThdIds)
        /\ Ascending(InvIds) /\ Ascending(RecvIds)
        /\ Len(Proj) = 1 /\ Len(Proj[1].Thd) = 1 =>
              /\ Proj[1].RVM_Captbl_Capid = 0
              /\ Proj[1].RVM_Proc_Capid = 1
              /\ Proj[1].Thd[1].RVM_Capid = 2

C7_Witness ==
    /\ pc = "backprop"
    /\ Len(Proj) = 2
    /\ Len(Proj[1].Thd) = 1
    /\ Len(Proj[1].Inv) = 1
    /\ Len(Proj[2].Thd) = 1
    /\ \E r \in EndpOfType(ENDP_RECEIVE) : r[1] = 2

\* The local identifiers of a process, list by list
LocalIds(Objs) == [i \in 1..Len(Objs) |-> Objs[i].Capid]
EndpIdsOfType(Proc, Type) == LocalIds(SelectSeq(Proc.Endp, LAMBDA e : e.Type = Type))

LocalAllocated == pc \in {"global", "backprop", "done"}

LocalDense(Proc) ==
    LET Ids == LocalIds(Proc.Thd) \o LocalIds(Proc.Inv) \o LocalIds(Proc.Port) \o LocalIds(Proc.Endp)
    IN  /\ {Ids[i] : i \in 1..Len(Ids)} = 0..(Len(Ids) - 1)
        /\ Proc.Captbl_Frontier = Len(Ids)

C10_HandlerUnique ==
    pc \in {"local", "global", "backprop", "done"} =>
        \A r \in EndpOfType(ENDP_HANDLER) :
            \A q \in EndpOfType(ENDP_HANDLER) \cup EndpOfType(ENDP_RECEIVE) :
                q # r => ~SameName(ObjAt("Endp", q).Name, ObjAt("Endp", r).Name)

\* Detect_Conflict has returned
Validated == pc \in {"local", "global", "backprop", "done"}

\* Some port names the process that declares it as its target
SelfTarget ==
    \E r \in RefSet("Port") : SameName(ObjAt("Port", r).Process, Proj[r[1]].Name)

\* C11: Detect_Conflict does not return when a port names the process that
\* declares it as its target (case ignored), and it ends the run with "Port
\* cannot target within the same process." only for such a port.
C11_SelfTargetAborts ==
    /\ Validated => ~SelfTarget
    /\ res = "Port cannot target within the same process." => SelfTarget

(***************************************************************************)
(* Specification SpecNames: ingestion of processes and kernel objects that *)
(* bear names of the project file, and Detect_Conflict                     *)
(***************************************************************************)
\* kernel objects of a project whose names are compared
MaxNamed == 3

\* The names of the project file: "A", "a", "B" for the processes and "F",
\* "f", "G" for the threads, invocations and receive endpoints
ProcNamePool == {<<65>>, <<97>>, <<66>>}
ObjNamePool == {<<70>>, <<102>>, <<71>>}

InitNames ==
    /\ pc = "parse"
    /\ res = ""
    /\ Chip = ChipShared
    /\ RME = RMEChoice
    /\ RVM = RVMChoice
    /\ Proj = <<>>
    /\ Map = NoMap
    /\ Pgtbl = <<>>
    /\ Mem_List = NoList
    /\ Arg = <<>>
    /\ Ret = <<>>

\* Parse_Process starts on the next process and reads its name
NameProcess ==
    /\ pc = "parse"
    /\ Len(Proj) < MaxProc
    /\ Proj # <<>> => HasCode(Proj[Len(Proj)])
    /\ \E Name \in ProcNamePool :
          Proj' = Append(Proj, [NewProc(Name) EXCEPT !.Mem = <<PlacedMem>>])
    /\ UNCHANGED <<pc, res, Chip, RME, RVM, Map, Pgtbl, Mem_List, Arg, Ret>>

\* Parse_Thread reads the name of a further thread
NameThread ==
    /\ pc = "parse"
    /\ Proj # <<>>
    /\ TotalObj(Proj) < MaxNamed
    /\ LET Proc == Proj[Len(Proj)]
       IN  /\ Proc.Inv = <<>> /\ Proc.Endp = <<>>
           /\ \E Name \in ObjNamePool :
                 Proj' = [Proj EXCEPT ![Len(Proj)].Thd =
                             Append(@, [Name |-> Name, Capid |-> Unset, RVM_Capid |-> Unset])]
    /\ UNCHANGED <<pc, res, Chip, RME, RVM, Map, Pgtbl, Mem_List, Arg, Ret>>

\* Parse_Invocation reads the name of a further invocation
NameInvocation ==
    /\ pc = "parse"
    /\ Proj # <<>>
    /\ TotalObj(Proj) < MaxNamed
    /\ LET Proc == Proj[Len(Proj)]
       IN  /\ Proc.Endp = <<>>
           /\ \E Name \in ObjNamePool :
                 Proj' = [Proj EXCEPT ![Len(Proj)].Inv =
                             Append(@, [Name |-> Name, Capid |-> Unset, RVM_Capid |-> Unset])]
    /\ UNCHANGED <<pc, res, Chip, RME, RVM, Map, Pgtbl, Mem_List, Arg, Ret>>

\* Parse_Endpoint reads the name of a further receive endpoint.  The
\* process has no port, so the store of line 1511 goes past the end of the
\* port array, and either goes unnoticed or faults.
NameReceive ==
    /\ pc = "parse"
    /\ Proj # <<>>
    /\ TotalObj(Proj) < MaxNamed
    /\ LET Proc == Proj[Len(Proj)]
       IN  /\ HasCode(Proc)
           /\ \E Name \in ObjNamePool, Fault \in BOOLEAN :
                 /\ Proj' = [Proj EXCEPT ![Len(Proj)].Endp =
                                Append(@, [Name |-> Name, Type |-> ENDP_RECEIVE, Process |-> Wild,
                                           Capid |-> Unset, RVM_Capid |-> Unset])]
                 /\ pc' = IF Fault THEN "crash" ELSE pc
    /\ UNCHANGED <<res, Chip, RME, RVM, Map, Pgtbl, Mem_List, Arg, Ret>>

NextNames ==
    \/ NameProcess
    \/ NameThread
    \/ NameInvocation
    \/ NameReceive
    \/ ParseDone
    \/ DoDetectConflict

SpecNames == InitNames /\ [][NextNames]_vars

(***************************************************************************)
(* Properties of name conflict detection                                   *)
(***************************************************************************)
\* Two processes bear the same name, case ignored
DuplicateProc ==
    \E p, q \in 1..Len(Proj) : p # q /\ SameName(Proj[p].Name, Proj[q].Name)

\* Two objects of one list of one process bear the same name, case ignored
DuplicateIn(List) ==
    \E p \in 1..Len(Proj) : \E i, j \in 1..Len(Proj[p][List]) :
        i # j /\ SameName(Proj[p][List][i].Name, Proj[p][List][j].Name)

\* Two receive endpoints of one process bear the same name, case ignored
DuplicateReceive ==
    \E p \in 1..Len(Proj) : \E i, j \in 1..Len(Proj[p].Endp) :
        /\ i # j
        /\ Proj[p].Endp[i].Type = ENDP_RECEIVE /\ Proj[p].Endp[j].Type = ENDP_RECEIVE
        /\ SameName(Proj[p].Endp[i].Name, Proj[p].Endp[j].Name)

\* C12: on a project where two processes, or two threads, two invocations
\* or two receive endpoints of one process, bear names equal when case is
\* ignored, Detect_Conflict neither returns nor runs forever; and it ends
\* the run with a message of duplicate names only on such a project.
C12_DuplicateAborts ==
    /\ pc \in {"local", "hang"} =>
          ~(DuplicateProc \/ DuplicateIn("Thd") \/ DuplicateIn("Inv") \/ DuplicateReceive)
    /\ res = "Duplicate process name." => DuplicateProc
    /\ res = "Duplicate thread name." => DuplicateIn("Thd")
    /\ res = "Duplicate invocation name" => DuplicateIn("Inv")
    /\ res = "Duplicate receive or endpoint name" => DuplicateReceive

(***************************************************************************)
(* Specification SpecValidate: Validate_Name on the strings over a small   *)
(* alphabet                                                                *)
(***************************************************************************)
\* characters of a string handed to a function under study
MaxNameLen == 3

\* All strings of at most n characters of an alphabet
StringsUpTo(Alphabet, n) == UNION {[1..k -> Alphabet] : k \in 0..n}

\* 'A', 'z', '_', '5', '!'
NameAlphabet == {65, 122, 95, 53, 33}

\* The state of main before it has read a project
NoProject ==
    /\ res = ""
    /\ Chip = <<>>
    /\ RME = RMEChoice
    /\ RVM = RVMChoice
    /\ Proj = <<>>
    /\ Map = NoMap
    /\ Pgtbl = <<>>
    /\ Mem_List = NoList

InitValidate ==
    /\ pc = "call"
    /\ NoProject
    /\ Arg \in StringsUpTo(NameAlphabet, MaxNameLen)
    /\ Ret = <<>>

\* A call of Validate_Name(Arg)
CallValidateName ==
    /\ pc = "call"
    /\ \E o \in Validate_Name(Arg) :
          /\ pc' = o[1]
          /\ Ret' = o[2]
    /\ UNCHANGED <<res, Chip, RME, RVM, Proj, Map, Pgtbl, Mem_List, Arg>>

SpecValidate == InitValidate /\ [][CallValidateName]_vars

\* The string matches [A-Za-z_][A-Za-z0-9_]*
IsLetter(c) == c \in 65..90 \/ c \in 97..122
IsIdentifier(Str) ==
    /\ Len(Str) > 0
    /\ IsLetter(Str[1]) \/ Str[1] = 95
    /\ \A i \in 2..Len(Str) : IsLetter(Str[i]) \/ Str[i] \in 48..57 \/ Str[i] = 95

\* C13: Validate_Name returns 0 exactly on the strings that match
\* [A-Za-z_][A-Za-z0-9_]*; on the empty string and on a string whose first
\* character is no letter and no underscore it returns -1.
C13_IdentifierRule ==
    pc = "ret" => (Ret = 0 <=> IsIdentifier(Arg))

(***************************************************************************)
(* Page table synthesis (A7M_Gen_Pgtbl)                                    *)
(***************************************************************************)
Pow2(n) == 2 ^ n
MemEnd(m) == Add32(m.Start, m.Size)

\* The loop of lines 3440-3448: the lowest start and the highest end
PgStart(Mem) ==
    LET S == {AUTO} \cup {Mem[i].Start : i \in 1..Len(Mem)}
    IN  CHOOSE x \in S : \A y \in S : x <= y
PgEnd(Mem) ==
    LET S == {0} \cup {MemEnd(Mem[i]) : i \in 1..Len(Mem)}
    IN  CHOOSE x \in S : \A y \in S : x >= y

\* The loop of lines 3451-3457.  A shift by the width of the word or more
\* has no defined result: the operator stops there, and DoGenPgtbl adds the
\* outcome in which the loop never ends.
RECURSIVE TotalOrderFrom(_, _, _)
TotalOrderFrom(Start, End, Total_Order) ==
    IF Pow2(Total_Order) >= W32 THEN Total_Order
    ELSE IF End <= Add32((Start \div Pow2(Total_Order)) * Pow2(Total_Order), Pow2(Total_Order))
    THEN Total_Order
    ELSE TotalOrderFrom(Start, End, Total_Order + 1)

\* The loop of lines 3472-3478 runs to the end
DirectlyMappable(Mem, Total_Order) ==
    \A i \in 1..Len(Mem) :
        /\ Mem[i].Attr = Mem[1].Attr
        /\ Mem[i].Start % Pow2(Total_Order - 3) = 0
        /\ Mem[i].Size % Pow2(Total_Order - 3) = 0

\* Some pivot of the division into 2^Num_Order parts lies inside a segment
CutApart(Mem, Start, End, Num_Order) ==
    \E Mem_Cnt \in 1..Len(Mem) : \E Count \in 1..(Pow2(Num_Order) - 1) :
        LET Pivot_Addr == Add32((Sub32(End, Start) \div Pow2(Num_Order)) * Count, Start)
        IN  Mem[Mem_Cnt].Start < Pivot_Addr /\ MemEnd(Mem[Mem_Cnt]) > Pivot_Addr

\* Lines 3481-3518: the loop leaves Num_Order at the first order that cuts
\* a segment, which is then lowered by one unless it is 1; if no order up
\* to 3 cuts, the loop leaves Num_Order at 4 and nothing lowers it.
NumOrder(Mem, Start, End, Total_Order) ==
    IF DirectlyMappable(Mem, Total_Order) THEN 3
    ELSE IF CutApart(Mem, Start, End, 1) THEN 1
    ELSE IF CutApart(Mem, Start, End, 2) THEN 1
    ELSE IF CutApart(Mem, Start, End, 3) THEN 2
    ELSE 4

\* The loop of lines 3532-3547 from segment Mem_Cnt on; st holds Pgtbl->Attr
\* and Pgtbl->Mapping[Count]
RECURSIVE PageMap(_, _, _, _, _)
PageMap(Mem, Page_Start, Page_End, Mem_Cnt, st) ==
    IF Mem_Cnt > Len(Mem) THEN st
    ELSE IF Mem[Mem_Cnt].Start <= Page_Start /\ MemEnd(Mem[Mem_Cnt]) >= Page_End
    THEN LET Attr == IF st.Attr = 0 THEN Mem[Mem_Cnt].Attr ELSE st.Attr
         IN  PageMap(Mem, Page_Start, Page_End, Mem_Cnt + 1,
                     [Attr |-> Attr,
                      Page |-> IF Attr = Mem[Mem_Cnt].Attr THEN 1 ELSE st.Page])
    ELSE PageMap(Mem, Page_Start, Page_End, Mem_Cnt + 1, st)

\* Lines 3552-3586: the parts of the segments inside the page
Residue(Mem, Page_Start, Page_End) ==
    LET Inside == SelectSeq(Mem, LAMBDA m : ~(m.Start >= Page_End \/ MemEnd(m) <= Page_Start))
    IN  [i \in 1..Len(Inside) |->
            LET Mem_Start == IF Inside[i].Start < Page_Start THEN Page_Start ELSE Inside[i].Start
                Mem_End == IF MemEnd(Inside[i]) > Page_End THEN Page_End ELSE MemEnd(Inside[i])
            IN  [Start |-> Mem_Start, Size |-> Sub32(Mem_End, Mem_Start),
                 Attr |-> Inside[i].Attr, Type |-> Inside[i].Type,
                 Align |-> Inside[i].Align]]

\* An element of Mapping: Page is 1 for a mapped page, else 0; Next holds
\* the next level table if there is one
NoPage == [Page |-> 0, Next |-> <<>>]

\* Result: out is "ok" with the table tbl, or "fail" with the message of the
\* EXIT_FAIL.  Mapping holds 2^Num_Order elements; the array of the code
\* holds 8, so for Num_Order = 4 the elements from the ninth on are stores
\* past the end of the structure.
RECURSIVE A7M_Gen_Pgtbl(_, _)
RECURSIVE PgLayer(_, _, _, _, _, _)
PgLayer(Mem, Start, Size_Order, Num_Order, Count, st) ==
    IF Count >= Pow2(Num_Order) \/ st.out # "ok" THEN st
    ELSE LET Page_Start == Add32(Start, Count * Pow2(Size_Order))
             Page_End == Add32(Start, (Count + 1) * Pow2(Size_Order))
             m == PageMap(Mem, Page_Start, Page_End, 1, [Attr |-> 0, Page |-> 0])
             Page_Mem == Residue(Mem, Page_Start, Page_End)
         IN  IF m.Page = 1
             THEN PgLayer(Mem, Start, Size_Order, Num_Order, Count + 1,
                          [st EXCEPT !.Attr = m.Attr,
                                     !.Mapping = Append(@, [Page |-> 1, Next |-> <<>>])])
             ELSE IF Len(Page_Mem) = 0
             THEN PgLayer(Mem, Start, Size_Order, Num_Order, Count + 1,
                          [st EXCEPT !.Attr = m.Attr, !.Mapping = Append(@, NoPage)])
             ELSE LET Child == A7M_Gen_Pgtbl(Page_Mem, Size_Order)
                  IN  IF Child.out # "ok"
                      THEN [st EXCEPT !.out = Child.out, !.msg = Child.msg]
                      ELSE PgLayer(Mem, Start, Size_Order, Num_Order, Count + 1,
                                   [st EXCEPT !.Attr = m.Attr,
                                              !.Mapping = Append(@, [Page |-> 0, Next |-> <<Child.tbl>>])])

A7M_Gen_Pgtbl(Mem, Total_Max) ==
    LET Start == PgStart(Mem)
        End == PgEnd(Mem)
        Found == TotalOrderFrom(Start, End, 0)
        Total_Order == IF Found < 8 THEN 8 ELSE Found
        Start_Addr == (Start \div Pow2(Total_Order)) * Pow2(Total_Order)
        Num_Order == NumOrder(Mem, Start, End, Total_Order)
        Size_Order == Total_Order - Num_Order
        Layer == PgLayer(Mem, Start, Size_Order, Num_Order, 0,
                         [out |-> "ok", msg |-> "", Attr |-> 0, Mapping |-> <<>>])
    IN  IF Total_Order > Total_Max
        THEN [out |-> "fail", tbl |-> <<>>,
              msg |-> "Memory segment too small, cannot find a reasonable placement."]
        ELSE IF Layer.out # "ok"
        THEN [out |-> Layer.out, tbl |-> <<>>, msg |-> Layer.msg]
        ELSE [out |-> "ok", msg |-> "",
              tbl |-> [Start_Addr |-> Start_Addr, Size_Order |-> Size_Order,
                       Num_Order |-> Num_Order, Attr |-> Layer.Attr,
                       Mapping |-> Layer.Mapping]]

\* Some table of the tree was built with more than 8 mapping elements
RECURSIVE Overrun(_)
Overrun(tbl) ==
    \/ Len(tbl.Mapping) > 8
    \/ \E i \in 1..Len(tbl.Mapping) :
          tbl.Mapping[i].Next # <<>> /\ Overrun(tbl.Mapping[i].Next[1])

(***************************************************************************)
(* Specification SpecPgtbl: page table generation for the processes of a   *)
(* placed project (A7M_Gen_Proj, lines 3747-3755)                          *)
(***************************************************************************)
\* The values of a segment that has passed alignment and placement: start
\* and size are multiples of 32.  The last two starts lie in the highest
\* 2048 and the highest 256 bytes of the address space.
PgStarts == {0, 32, 256, 2048, W32 - 2048, W32 - 256}
PgSizes == {32, 64, 256, 2048}
PgAttrs == {1, 3}

InitPgtbl ==
    /\ pc = "parse"
    /\ res = ""
    /\ Chip = ChipShared
    /\ RME = RMEChoice
    /\ RVM = RVMChoice
    /\ Proj = <<>>
    /\ Map = NoMap
    /\ Pgtbl = <<>>
    /\ Mem_List = NoList
    /\ Arg = <<>>
    /\ Ret = <<>>

\* Parse_Process with the first memory segment of the next process, as
\* placement leaves the segment
ParseProcessPg ==
    /\ pc = "parse"
    /\ Len(Proj) < MaxProc
    /\ TotalMem(Proj) < MaxMem
    /\ \E Start \in PgStarts, Size \in PgSizes, Attr \in PgAttrs :
          Proj' = Append(Proj, [NewProc(ProcName(Len(Proj) + 1)) EXCEPT !.Mem =
                      << [Start |-> Start, Size |-> Size, Type |-> MEM_CODE,
                          Attr |-> Attr, Align |-> 0] >>])
    /\ UNCHANGED <<pc, res, Chip, RME, RVM, Map, Pgtbl, Mem_List, Arg, Ret>>

\* Parse_Process_Memory for a further segment of the process being parsed
ParseMorePg ==
    /\ pc = "parse"
    /\ Len(Proj) > 0
    /\ TotalMem(Proj) < MaxMem
    /\ \E Start \in PgStarts, Size \in PgSizes, Attr \in PgAttrs :
          Proj' = [Proj EXCEPT ![Len(Proj)].Mem = Append(@,
                      [Start |-> Start, Size |-> Size, Type |-> MEM_DATA,
                       Attr |-> Attr, Align |-> 0])]
    /\ UNCHANGED <<pc, res, Chip, RME, RVM, Map, Pgtbl, Mem_List, Arg, Ret>>

\* main reaches A7M_Gen_Proj
ParseDonePg ==
    /\ pc = "parse"
    /\ Len(Proj) > 0
    /\ pc' = "gen"
    /\ UNCHANGED <<res, Chip, RME, RVM, Proj, Map, Pgtbl, Mem_List, Arg, Ret>>

\* The loop of lines 3451-3457 comes to a shift by the width of the word
WordShift(Mem) == Pow2(TotalOrderFrom(PgStart(Mem), PgEnd(Mem), 0)) >= W32

\* One turn of the loop of A7M_Gen_Proj: the page table of the next
\* process.  A table built with stores past the end of its structure either
\* goes unnoticed or faults.  A search for Total_Order that comes to a
\* shift by the width of the word either stops there or never ends.
DoGenPgtbl ==
    /\ pc = "gen"
    /\ LET Proc_Cnt == Len(Pgtbl) + 1
           r == A7M_Gen_Pgtbl(Proj[Proc_Cnt].Mem, 32)
       IN  IF r.out # "ok"
           THEN /\ \E Hang \in {FALSE, WordShift(Proj[Proc_Cnt].Mem)} :
                      /\ pc' = IF Hang THEN "hang" ELSE r.out
                      /\ res' = IF Hang THEN res ELSE r.msg
                /\ Pgtbl' = Pgtbl
           ELSE IF WordShift(Proj[Proc_Cnt].Mem)
           THEN /\ \E Hang \in BOOLEAN :
                      /\ pc' = IF Hang THEN "hang"
                               ELSE IF Proc_Cnt = Len(Proj) THEN "generated" ELSE "gen"
                      /\ Pgtbl' = IF Hang THEN Pgtbl ELSE Append(Pgtbl, r.tbl)
                /\ res' = res
           ELSE /\ \E Fault \in BOOLEAN :
                      /\ Fault => Overrun(r.tbl)
                      /\ pc' = IF Fault THEN "crash"
                               ELSE IF Proc_Cnt = Len(Proj) THEN "generated" ELSE "gen"
                /\ res' = res
                /\ Pgtbl' = Append(Pgtbl, r.tbl)
    /\ UNCHANGED <<Chip, RME, RVM, Proj, Map, Mem_List, Arg, Ret>>

NextPgtbl ==
    \/ ParseProcessPg
    \/ ParseMorePg
    \/ ParseDonePg
    \/ DoGenPgtbl

SpecPgtbl == InitPgtbl /\ [][NextPgtbl]_vars

(***************************************************************************)
(* Properties of page table synthesis                                      *)
(***************************************************************************)
\* The attributes through which the address is mapped in the tree: subregion
\* i of a table starts at Start_Addr + i * 2^Size_Order
RECURSIVE MappedAttrs(_, _)
MappedAttrs(tbl, Addr) ==
    LET i == (Addr - tbl.Start_Addr) \div Pow2(tbl.Size_Order)
    IN  IF Addr < tbl.Start_Addr \/ i >= Len(tbl.Mapping) THEN {}
        ELSE IF tbl.Mapping[i + 1].Page = 1 THEN {tbl.Attr}
        ELSE IF tbl.Mapping[i + 1].Next # <<>> THEN MappedAttrs(tbl.Mapping[i + 1].Next[1], Addr)
        ELSE {}

\* The addresses looked at: one in every 16 bytes, no boundary of a segment
\* or of a page lies between two of them
Probes == {16 * k : k \in 0..511}

SegsAt(Mem, Addr) == {i \in 1..Len(Mem) : Mem[i].Start <= Addr /\ Addr < Mem[i].Start + Mem[i].Size}

\* C9: in the page table of a process every address of every segment is
\* mapped by a page that carries the attribute of the segment, and no
\* address outside the segments is mapped.
C9_ExactCover ==
    pc = "generated" =>
        \A p \in 1..Len(Proj) : \A Addr \in Probes :
            /\ \A i \in SegsAt(Proj[p].Mem, Addr) : Proj[p].Mem[i].Attr \in MappedAttrs(Pgtbl[p], Addr)
            /\ SegsAt(Proj[p].Mem, Addr) = {} => MappedAttrs(Pgtbl[p], Addr) = {}

(***************************************************************************)
(* Specification SpecMain: the stages of main in the order main calls      *)
(* them, from alignment to A7M_Copy_Files (lines 2966-2986, 3741-3758)     *)
(***************************************************************************)
\* The chip of SpecCap with a device segment
ChipDevice == Append(ChipShared, [Start |-> 4096, Size |-> 256, Type |-> MEM_DEVICE])

InitMain ==
    /\ pc = "parse"
    /\ res = ""
    /\ Chip = ChipDevice
    /\ RME = RMEChoice
    /\ RVM = RVMChoice
    /\ Proj = <<>>
    /\ Map = NoMap
    /\ Pgtbl = <<>>
    /\ Mem_List = NoList
    /\ Arg = <<>>
    /\ Ret = <<>>

\* Parse_Process for the next process: its name (the name of its position,
\* or "9"), its first memory segment and one thread
ParseMainProcess ==
    /\ pc = "parse"
    /\ Len(Proj) < MaxProc
    /\ TotalMem(Proj) < MaxMem
    /\ \E Name \in {ProcName(Len(Proj) + 1), <<57>>}, Start \in {AUTO, 288, 384, 4096},
          Size \in {32, 256}, Type \in {MEM_CODE, MEM_DEVICE}, Align \in Indeterminate :
          Proj' = Append(Proj, [NewProc(Name) EXCEPT
                      !.Mem = << [Start |-> Start, Size |-> Size, Type |-> Type,
                                  Attr |-> 1, Align |-> Align] >>,
                      !.Thd = << [Name |-> ObjName(1), Capid |-> Unset, RVM_Capid |-> Unset] >>])
    /\ UNCHANGED <<pc, res, Chip, RME, RVM, Map, Pgtbl, Mem_List, Arg, Ret>>

\* main calls Alloc_Captbl(Proj) (line 2981)
CallAllocCaptbl ==
    /\ pc = "placed"
    /\ pc' = "detect"
    /\ UNCHANGED <<res, Chip, RME, RVM, Proj, Map, Pgtbl, Mem_List, Arg, Ret>>

\* main calls A7M_Gen_Proj, which allocates its structure and the array of
\* page tables (lines 3741-3749); Malloced says whether Malloc returned a
\* block both times
CallGenProj ==
    /\ pc = "done"
    /\ \E Malloced \in {"both", "none", "first"} :
          /\ pc' = IF Malloced = "both" THEN "gen" ELSE "fail"
          /\ res' = CASE Malloced = "both" -> res
                      [] Malloced = "none" -> "Project struct allocation failed."
                      [] OTHER -> "Project page table allocation failed."
    /\ UNCHANGED <<Chip, RME, RVM, Proj, Map, Pgtbl, Mem_List, Arg, Ret>>

\* A7M_Gen_Proj calls A7M_Copy_Files, which creates the folders of the
\* output and copies the files into them; Outcome is the first call that
\* fails, if any
DoCopyFiles ==
    /\ pc = "generated"
    /\ \E Outcome \in {"", "Buffer allocation failed", "RME folder creation failed.",
                      "File copying failed."} :
          /\ pc' = IF Outcome = "" THEN "emitted" ELSE "fail"
          /\ res' = Outcome
    /\ UNCHANGED <<Chip, RME, RVM, Proj, Map, Pgtbl, Mem_List, Arg, Ret>>

NextMain ==
    \/ ParseMainProcess
    \/ ParseMoreMem
    \/ ParseDoneMem
    \/ DoAlignMem
    \/ DoAllocCode
    \/ DoAllocData
    \/ CallAllocCaptbl
    \/ DoDetectConflict
    \/ DoAllocLocalID
    \/ DoAllocGlobalID
    \/ DoBackprop
    \/ CallGenProj
    \/ DoGenPgtbl
    \/ DoCopyFiles

SpecMain == InitMain /\ [][NextMain]_vars

(***************************************************************************)
(* Properties of the pipeline                                              *)
(***************************************************************************)
\* The device segments of the processes
DeviceRefSet == TypedRefSet(MEM_DEVICE)

\* C14: A7M_Copy_Files is reached only if every device segment of every
\* process has a concrete start and lies inside one device segment of the
\* chip.
C14_DeviceInsideChip ==
    pc \in {"generated", "emitted"} =>
        \A r \in DeviceRefSet :
            /\ SegAt(r).Start # AUTO
            /\ InsideChip(SegAt(r), MEM_DEVICE)

\* Some process bears a name that is no identifier
InvalidProcName == \E p \in 1..Len(Proj) : ~IsIdentifier(Proj[p].Name)

\* C16: the stages run in the order validation, alignment, placement,
\* page table synthesis, capability allocation, emission, each ending the
\* run on its first violation: alignment has not completed on a project with
\* an invalid name, a run on such a project ends with a message of
\* validation, and the page tables of all processes are built when
\* capability allocation begins.
C16_StageOrder ==
    /\ pc \in {"alloc_code", "alloc_data", "placed"} => ~InvalidProcName
    /\ pc = "fail" /\ InvalidProcName => res = "Invalid process name."
    /\ pc \in {"local", "global", "backprop", "done"} => Len(Pgtbl) = Len(Proj)

(***************************************************************************)
(* The allocation list (List_Crt, List_Ins, List_Del, Malloc, Free,        *)
(* Free_All) and the exit through EXIT_FAIL                                *)
(*                                                                         *)
(* Mem_List maps the address of every list node to its Prev and Next       *)
(* fields.  Address 0 stands for &Mem_List, the head; a block returned by  *)
(* malloc has the address 1, 2, ... of its header.                         *)
(***************************************************************************)
\* blocks a run allocates
MaxBlock == 3

List_Crt(Node) == Node :> [Prev |-> Node, Next |-> Node]

List_Del(L, Prev, Next) == [L EXCEPT ![Next].Prev = Prev, ![Prev].Next = Next]

List_Ins(L, New, Prev, Next) ==
    LET L1 == [L EXCEPT ![Next].Prev = New]
        L2 == (New :> [Prev |-> Prev, Next |-> Next]) @@ L1
    IN  [L2 EXCEPT ![Prev].Next = New]

\* The loop of Free_All: L is the list and Freed the number of calls of
\* free() on each block so far.  Fuel bounds the turns of the loop; a loop
\* that needs more never ends.
RECURSIVE Free_All(_, _, _)
Free_All(L, Freed, Fuel) ==
    IF L[0].Next = 0 THEN [out |-> "ret", L |-> L, Freed |-> Freed]
    ELSE IF Fuel = 0 THEN [out |-> "hang", L |-> L, Freed |-> Freed]
    ELSE LET Ptr == L[0].Next
         IN  Free_All(List_Del(L, L[Ptr].Prev, L[Ptr].Next),
                      [Freed EXCEPT ![Ptr] = @ + 1], Fuel - 1)

\* The blocks linked into the list, found from the head along Next
RECURSIVE LinkedFrom(_, _, _)
LinkedFrom(L, Ptr, Fuel) ==
    IF Ptr = 0 \/ Fuel = 0 THEN {}
    ELSE {Ptr} \cup LinkedFrom(L, L[Ptr].Next, Fuel - 1)

Linked(L) == LinkedFrom(L, L[0].Next, MaxBlock + 1)

(***************************************************************************)
(* Specification SpecHeap: any sequence of Malloc and Free calls, ended by *)
(* an EXIT_FAIL.  Arg is the set of blocks passed to Free so far; Ret      *)
(* holds the number of calls of free() on each block, and the exit code.   *)
(***************************************************************************)
\* main calls List_Crt(&Mem_List) (line 2951)
InitHeap ==
    /\ pc = "run"
    /\ res = ""
    /\ Chip = <<>>
    /\ RME = RMEChoice
    /\ RVM = RVMChoice
    /\ Proj = <<>>
    /\ Map = NoMap
    /\ Pgtbl = <<>>
    /\ Mem_List = List_Crt(0)
    /\ Arg = {}
    /\ Ret = [Freed |-> [b \in 1..(MaxBlock + 1) |-> 0], Code |-> 0]

\* Malloc: malloc returns the next block, which is linked in behind the
\* head, or it returns 0 and the list is left alone
DoMalloc ==
    /\ pc = "run"
    /\ Cardinality(DOMAIN Mem_List) <= MaxBlock
    /\ \E Got \in BOOLEAN :
          Mem_List' = IF Got
                      THEN List_Ins(Mem_List, Cardinality(DOMAIN Mem_List), 0, Mem_List[0].Next)
                      ELSE Mem_List
    /\ UNCHANGED <<pc, res, Chip, RME, RVM, Proj, Map, Pgtbl, Arg, Ret>>

\* Free(Addr) for a block Addr that Malloc returned.  Lines 414-415 step
\* back from Addr by the size of the header twice, so List points to the
\* bytes ahead of the block, which are no list node: List->Prev and
\* List->Next are whatever these bytes hold.  The stores of List_Del and
\* the free() of that address then fault, or go unnoticed, or land on the
\* links of two nodes of the list.
DoFree ==
    /\ pc = "run"
    /\ \E Addr \in Linked(Mem_List) \ Arg :
          /\ Arg' = Arg \cup {Addr}
          /\ \E Outcome \in {"fault", "unnoticed", "links"} :
                CASE Outcome = "fault" -> pc' = "crash" /\ Mem_List' = Mem_List
                  [] Outcome = "unnoticed" -> pc' = pc /\ Mem_List' = Mem_List
                  [] OTHER -> /\ pc' = pc
                              /\ \E Prev, Next \in DOMAIN Mem_List :
                                    Mem_List' = List_Del(Mem_List, Prev, Next)
    /\ UNCHANGED <<res, Chip, RME, RVM, Proj, Map, Pgtbl, Ret>>

\* EXIT_FAIL(Reason): Free_All(), then exit(-1), which the parent sees as
\* the exit code 255.  A block handed to free() a second time faults.
DoExitFail ==
    /\ pc = "run"
    /\ LET r == Free_All(Mem_List, Ret.Freed, MaxBlock + 1)
       IN  /\ Mem_List' = r.L
           /\ pc' = IF r.out = "hang" THEN "hang"
                    ELSE IF \E b \in DOMAIN r.Freed : r.Freed[b] > 1 THEN "crash"
                    ELSE "exited"
           /\ Ret' = [Freed |-> r.Freed, Code |-> IF r.out = "hang" THEN 0 ELSE (-1) % 256]
           /\ res' = "Reason"
    /\ UNCHANGED <<Chip, RME, RVM, Proj, Map, Pgtbl, Arg>>

NextHeap ==
    \/ DoMalloc
    \/ DoFree
    \/ DoExitFail

SpecHeap == InitHeap /\ [][NextHeap]_vars

\* The blocks Malloc has returned
Allocated == DOMAIN Mem_List \ {0}

\* C15: after an EXIT_FAIL the list is empty, every block that Malloc
\* returned and that was not passed to Free has been handed to free() once,
\* and the exit code is not zero; and while the run goes on, a block passed
\* to Free is no longer linked into the list and every other block is.
C15_RegistryReleased ==
    /\ pc = "exited" =>
          /\ Linked(Mem_List) = {}
          /\ \A b \in Allocated \ Arg : Ret.Freed[b] = 1
          /\ Ret.Code # 0
    /\ pc = "run" => Linked(Mem_List) = Allocated \ Arg

(***************************************************************************)
(* Specification SpecCmdline: the command line (Cmdline_Proc)              *)
(*                                                                         *)
(* Arg is the part of argv read so far, one entry for each turn of the     *)
(* loop: the flag argv[Count], the value argv[Count+1], and what           *)
(* Dir_Present and Dir_Empty find at that value.  Ret holds argc, Count    *)
(* and the five outputs; a path output is the index of its argv entry,     *)
(* and 0 the null pointer.                                                 *)
(***************************************************************************)
OUTPUT_KEIL == 0
OUTPUT_ECLIPSE == 4
OUTPUT_MAKEFILE == 5

ArgcChoice == {9, 11, 13}
FlagChoice == {"-i", "-o", "-k", "-u", "-f", "-x"}
FormatChoice == {"keil", "eclipse", "makefile", "iar"}
DirChoice == {"absent", "empty", "files"}

InitCmdline ==
    /\ pc = "main"
    /\ NoProject
    /\ Arg = <<>>
    /\ Ret = <<>>

\* Lines 588-606: the count of the arguments, and the outputs cleared
CmdlineEnter ==
    /\ pc = "main"
    /\ \E argc \in ArgcChoice :
          IF argc # 11
          THEN /\ pc' = "fail"
               /\ res' = "Too many or too few input parameters."
               /\ Ret' = Ret
          ELSE /\ pc' = "args"
               /\ res' = res
               /\ Ret' = [argc |-> argc, Count |-> 1, Input_File |-> 0, Output_Path |-> 0,
                          RME_Path |-> 0, RVM_Path |-> 0, Output_Type |-> 0]
    /\ UNCHANGED <<Chip, RME, RVM, Proj, Map, Pgtbl, Mem_List, Arg>>

\* The message one turn of the loop ends the run with, "" when it goes on
CmdlineReason(r, Flag, Value, Dir) ==
    CASE Flag = "-i" -> IF r.Input_File # 0 THEN "More than one input file." ELSE ""
      [] Flag = "-o" -> IF r.Output_Path # 0 THEN "More than one output path."
                        ELSE IF Dir = "absent" THEN "Output path is not present."
                        ELSE IF Dir # "empty" THEN "Output path is not empty."
                        ELSE ""
      [] Flag = "-k" -> IF r.RME_Path # 0 THEN "More than one RME root folder."
                        ELSE IF Dir = "absent" THEN "RME root path is not present."
                        ELSE IF Dir = "empty" THEN "RME root path is empty, wrong path selected."
                        ELSE ""
      [] Flag = "-u" -> IF r.RVM_Path # 0 THEN "More than one RVM root folder."
                        ELSE IF Dir = "absent" THEN "RVM root path is not present."
                        ELSE IF Dir = "empty" THEN "RVM root path is empty, wrong path selected."
                        ELSE ""
      [] Flag = "-f" -> IF r.Output_Type # 0 THEN "Conflicting output project format designated."
                        ELSE IF Value \notin {"keil", "eclipse", "makefile"}
                        THEN "Unrecognized output project format designated."
                        ELSE ""
      [] OTHER -> "Unrecognized argument designated."

\* The outputs after a turn of the loop that goes on
CmdlineStore(r, Flag, Value) ==
    LET s == [r EXCEPT !.Count = @ + 2]
    IN  CASE Flag = "-i" -> [s EXCEPT !.Input_File = r.Count + 1]
          [] Flag = "-o" -> [s EXCEPT !.Output_Path = r.Count + 1]
          [] Flag = "-k" -> [s EXCEPT !.RME_Path = r.Count + 1]
          [] Flag = "-u" -> [s EXCEPT !.RVM_Path = r.Count + 1]
          [] OTHER -> [s EXCEPT !.Output_Type =
                          CASE Value = "keil" -> OUTPUT_KEIL
                            [] Value = "eclipse" -> OUTPUT_ECLIPSE
                            [] OTHER -> OUTPUT_MAKEFILE]

\* One turn of the loop of lines 608-684
CmdlineArg ==
    /\ pc = "args"
    /\ Ret.Count < Ret.argc
    /\ \E Flag \in FlagChoice :
       \E Value \in IF Flag = "-f" THEN FormatChoice ELSE {"path"} :
       \E Dir \in IF Flag \in {"-o", "-k", "-u"} THEN DirChoice ELSE {"unread"} :
          LET Reason == CmdlineReason(Ret, Flag, Value, Dir)
          IN  /\ Arg' = Append(Arg, [Flag |-> Flag, Value |-> Value, Dir |-> Dir])
              /\ IF Reason # ""
                 THEN pc' = "fail" /\ res' = Reason /\ Ret' = Ret
                 ELSE pc' = pc /\ res' = res /\ Ret' = CmdlineStore(Ret, Flag, Value)
    /\ UNCHANGED <<Chip, RME, RVM, Proj, Map, Pgtbl, Mem_List>>

\* Lines 686-695: every output must have been set
CmdlineEnd ==
    /\ pc = "args"
    /\ Ret.Count >= Ret.argc
    /\ LET Reason == IF Ret.Input_File = 0 THEN "No input file specified."
                     ELSE IF Ret.Output_Path = 0 THEN "No output path specified."
                     ELSE IF Ret.RME_Path = 0 THEN "No RME root path specified."
                     ELSE IF Ret.RVM_Path = 0 THEN "No RVM root path specified."
                     ELSE IF Ret.Output_Type = 0 THEN "No output project type specified."
                     ELSE ""
       IN  /\ pc' = IF Reason # "" THEN "fail" ELSE "parsed"
           /\ res' = Reason
    /\ UNCHANGED <<Chip, RME, RVM, Proj, Map, Pgtbl, Mem_List, Arg, Ret>>

NextCmdline ==
    \/ CmdlineEnter
    \/ CmdlineArg
    \/ CmdlineEnd

SpecCmdline == InitCmdline /\ [][NextCmdline]_vars

\* The command line gives each of the five flags once, with a known format
\* and with directories that pass their checks
FiveFlags ==
    /\ Len(Arg) = 5
    /\ {Arg[i].Flag : i \in 1..Len(Arg)} = {"-i", "-o", "-k", "-u", "-f"}
    /\ \A i \in 1..Len(Arg) :
          /\ Arg[i].Flag = "-f" => Arg[i].Value \in {"keil", "eclipse", "makefile"}
          /\ Arg[i].Flag = "-o" => Arg[i].Dir = "empty"
          /\ Arg[i].Flag \in {"-k", "-u"} => Arg[i].Dir = "files"

\* The format the command line names
FormatGiven == Arg[CHOOSE i \in 1..Len(Arg) : Arg[i].Flag = "-f"].Value

\* C17: Cmdline_Proc returns for a command line of the five flags once each
\* with a known format, with the format recorded, and ends the run for any
\* other command line.
C17_FiveFlagsAccepted ==
    /\ pc = "fail" => ~FiveFlags
    /\ pc = "parsed" =>
          /\ FiveFlags
          /\ FormatGiven = "keil" => Ret.Output_Type = OUTPUT_KEIL
          /\ FormatGiven = "eclipse" => Ret.Output_Type = OUTPUT_ECLIPSE
          /\ FormatGiven = "makefile" => Ret.Output_Type = OUTPUT_MAKEFILE

(***************************************************************************)
(* Specification SpecHex: reading a hexadecimal value (Get_Hex)            *)
(*                                                                         *)
(* Arg is the text between Start and End, which lies in the file buffer    *)
(* ahead of the '<' of the closing tag; Ret is the value returned.         *)
(***************************************************************************)
\* longest text drawn from the alphabet
MaxHexLen == 4

\* '0' '9' 'F' 'a' 'g' 'x' 'X'
HexAlphabet == {48, 57, 70, 97, 103, 120, 88}

\* "Auto", "Autox", and "0x" with nine digits, whose value passes the word
HexSamples == {<<65, 117, 116, 111>>, <<65, 117, 116, 111, 120>>,
               <<48, 120, 70, 70, 70, 70, 70, 70, 70, 70, 57>>}

\* The character Start[i - 1]
BufferAt(Text, i) == IF i <= Len(Text) THEN Text[i] ELSE 60

\* The value of one hexadecimal digit, -1 for any other character
HexDigit(c) ==
    IF c \in 48..57 THEN c - 48
    ELSE IF c \in 65..70 THEN c - 65 + 10
    ELSE IF c \in 97..102 THEN c - 97 + 10
    ELSE -1

\* Val*=16 in a word: the product modulo W32, without a wider product
Mul16(Val) == (Val % (W32 \div 16)) * 16

\* The loop of lines 917-928 from Start_Ptr = Start + i - 1: Val when
\* Start_Ptr passes End, and INVALID at the first other character
RECURSIVE HexLoop(_, _, _)
HexLoop(Text, i, Val) ==
    IF i > Len(Text) THEN [stop |-> "end", Val |-> Val]
    ELSE IF HexDigit(Text[i]) < 0 THEN [stop |-> "char", Val |-> INVALID]
    ELSE HexLoop(Text, i + 1, (Mul16(Val) + HexDigit(Text[i])) % W32)

Get_Hex(Text) ==
    IF Len(Text) = 0 THEN 0
    ELSE IF BufferAt(Text, 1) # 48 \/ (BufferAt(Text, 2) # 120 /\ BufferAt(Text, 2) # 88)
    THEN IF \A i \in 1..4 : BufferAt(Text, i) = <<65, 117, 116, 111>>[i] THEN AUTO ELSE INVALID
    ELSE LET Loop == HexLoop(Text, 3, 0)
         IN  IF Loop.stop = "char" THEN Loop.Val ELSE INVALID

InitHex ==
    /\ pc = "call"
    /\ NoProject
    /\ Arg \in StringsUpTo(HexAlphabet, MaxHexLen) \cup HexSamples
    /\ Ret = <<>>

CallGetHex ==
    /\ pc = "call"
    /\ pc' = "ret"
    /\ Ret' = Get_Hex(Arg)
    /\ UNCHANGED <<res, Chip, RME, RVM, Proj, Map, Pgtbl, Mem_List, Arg>>

SpecHex == InitHex /\ [][CallGetHex]_vars

\* The text is 0x or 0X followed by hexadecimal digits
IsHexText(Text) ==
    /\ Len(Text) >= 3
    /\ Text[1] = 48
    /\ Text[2] \in {120, 88}
    /\ \A i \in 3..Len(Text) : HexDigit(Text[i]) >= 0

\* The number the digits from index i on denote, modulo the word
RECURSIVE HexValue(_, _, _)
HexValue(Text, i, Val) ==
    IF i > Len(Text) THEN Val
    ELSE HexValue(Text, i + 1, ((Val % (W32 \div 16)) * 16 + HexDigit(Text[i])) % W32)

\* C18: Get_Hex returns the value of the digits modulo the word for 0x or
\* 0X followed by hexadecimal digits, AUTO for the text Auto, and INVALID
\* for any other text.
C18_HexValue ==
    pc = "ret" =>
       /\ IsHexText(Arg) => Ret = HexValue(Arg, 3, 0)
       /\ Arg = <<65, 117, 116, 111>> => Ret = AUTO
       /\ ~IsHexText(Arg) /\ Arg # <<65, 117, 116, 111>> => Ret = INVALID

(***************************************************************************)
(* Specification SpecAttr: the attribute text of a memory segment          *)
(* (Parse_Process_Memory, lines 1300-1318)                                 *)
(*                                                                         *)
(* Arg is the text of the Attribute label and Ret the Attr field stored.   *)
(***************************************************************************)
MEM_READ == 0
MEM_WRITE == 1
MEM_EXECUTE == 2
MEM_BUFFERABLE == 3
MEM_CACHEABLE == 4
MEM_STATIC == 5

\* longest text drawn from the alphabet
MaxAttrLen == 3

\* 'R' 'W' 'X' 'B' 'C' 'S'
AttrAlphabet == {82, 87, 88, 66, 67, 83}

\* "RWXBCS"
AttrSamples == {<<82, 87, 88, 66, 67, 83>>}

\* a | b for words below 8
BitOr(a, b) ==
    LET Bit(n, k) == (n \div k) % 2
        Or(k) == IF Bit(a, k) = 1 \/ Bit(b, k) = 1 THEN k ELSE 0
    IN  Or(1) + Or(2) + Or(4)

\* strchr(Str, c) != 0
strchr(Str, c) == \E i \in 1..Len(Str) : Str[i] = c

\* Lines 1300-1317 on the string Get_String returned: the Attr field, or
\* the end of the run
ParseAttr(Attr_Temp) ==
    LET Access == IF strchr(Attr_Temp, 82) THEN BitOr(0, MEM_READ)
                  ELSE IF ~strchr(Attr_Temp, 87) THEN BitOr(0, MEM_WRITE)
                  ELSE IF ~strchr(Attr_Temp, 88) THEN BitOr(0, MEM_EXECUTE)
                  ELSE -1
        Attr == IF strchr(Attr_Temp, 66) THEN BitOr(Access, MEM_BUFFERABLE)
                ELSE IF ~strchr(Attr_Temp, 87) THEN BitOr(Access, MEM_CACHEABLE)
                ELSE IF ~strchr(Attr_Temp, 88) THEN BitOr(Access, MEM_STATIC)
                ELSE Access
    IN  IF Access < 0 THEN [out |-> "fail", Attr |-> 0]
        ELSE [out |-> "ret", Attr |-> Attr]

InitAttr ==
    /\ pc = "call"
    /\ NoProject
    /\ Arg \in StringsUpTo(AttrAlphabet, MaxAttrLen) \cup AttrSamples
    /\ Ret = <<>>

\* Get_String returns 0 for an empty text, and strchr then reads through
\* the null pointer.  The Free of line 1318 steps back from the string by
\* two headers (lines 414-415) and faults or goes unnoticed.
CallParseAttr ==
    /\ pc = "call"
    /\ IF Len(Arg) = 0
       THEN pc' = "crash" /\ res' = res /\ Ret' = Ret
       ELSE LET r == ParseAttr(Arg)
            IN  IF r.out = "fail"
                THEN pc' = "fail" /\ res' = "No access to the memory is allowed." /\ Ret' = Ret
                ELSE /\ \E Fault \in BOOLEAN : pc' = IF Fault THEN "crash" ELSE "ret"
                     /\ res' = res
                     /\ Ret' = r.Attr
    /\ UNCHANGED <<Chip, RME, RVM, Proj, Map, Pgtbl, Mem_List, Arg>>

SpecAttr == InitAttr /\ [][CallParseAttr]_vars

\* The letters of a text
Letters(Str) == {Str[i] : i \in 1..Len(Str)}

\* C19: the stored value tells which of the six letters the text holds (two
\* texts with different letters never store the same value), and the run
\* ends exactly for a text with none of R, W, X.
C19_AttrLetters ==
    /\ pc = "fail" => Letters(Arg) \cap {82, 87, 88} = {}
    /\ pc = "ret" =>
          /\ Letters(Arg) \cap {82, 87, 88} # {}
          /\ \A Other \in StringsUpTo(AttrAlphabet, 2) :
                Other # <<>> /\ Letters(Other) # Letters(Arg) /\ ParseAttr(Other).out = "ret"
                   => ParseAttr(Other).Attr # Ret

(***************************************************************************)
(* Specification SpecPopulate: Populate_Mem on the memory map Alloc_Mem    *)
(* has built for the code segments of the chip.  Arg lists the calls made, *)
(* each with the value returned; Ret is the value the last call returned.  *)
(***************************************************************************)
\* calls of Populate_Mem in a run
MaxCalls == 2

\* The start and the size of a segment: sizes that fit, and sizes that
\* carry Start + Size over the end of the word
PopStarts == {288, 384, 768}
PopSizes == {32, 256, W32 - 32, W32 - 256, W32 - 512}

\* Lines 2331-2366 of Alloc_Mem for MEM_CODE: the sorted chip segments and
\* their cleared bitmaps
InitPopulate ==
    /\ pc = "call"
    /\ res = ""
    /\ Chip \in ChipChoices
    /\ RME = RMEChoice
    /\ RVM = RVMChoice
    /\ Proj = <<>>
    /\ LET Count == Len(SelectSeq(Chip, LAMBDA c : c.Type = MEM_CODE))
           Sorted == ChipInsertFrom(Chip, <<>>, Count, MEM_CODE, 1)
       IN  Map = [Mem_Array |-> Sorted.Array,
                  Mem_Bitmap |-> [i \in 1..Len(Sorted.Array) |-> {}],
                  Proc_Mem_Array |-> <<>>]
    /\ Pgtbl = <<>>
    /\ Mem_List = NoList
    /\ Arg = <<>>
    /\ Ret = <<>>

\* One call Populate_Mem(Map, Start, Size).  Stores of Mark_Bitmap behind
\* the bitmap fault, or go unnoticed.
CallPopulateMem ==
    /\ pc = "call"
    /\ Len(Arg) < MaxCalls
    /\ \E Start \in PopStarts, Size \in PopSizes :
          LET r == Populate_Mem(Map, Start, Size)
          IN  /\ Arg' = Append(Arg, [Start |-> Start, Size |-> Size, ret |-> r.ret])
              /\ Ret' = r.ret
              /\ Map' = r.map
              /\ \E Fault \in {FALSE, r.over} : pc' = IF Fault THEN "crash" ELSE pc
    /\ UNCHANGED <<res, Chip, RME, RVM, Proj, Pgtbl, Mem_List>>

SpecPopulate == InitPopulate /\ [][CallPopulateMem]_vars

\* C20: Populate_Mem returns -1 for every range whose Start + Size passes
\* the end of the word.
C20_WrappedRejected ==
    \A i \in 1..Len(Arg) :
       Arg[i].Start + Arg[i].Size > W32 => Arg[i].ret # 0

(***************************************************************************)
(* Specification SpecFit: the loop of Alloc_Mem that fits the Auto         *)
(* segments (lines 2425-2430), one call of Fit_Mem at a time.  The run     *)
(* starts where Alloc_Mem for MEM_CODE has sorted the chip segments,       *)
(* marked the kernel and the runtime, and sorted the Auto code segments of *)
(* one process by size.  Arg lists the calls of Fit_Mem made: the segment, *)
(* the bitmaps before the call, the value returned and the start written.  *)
(***************************************************************************)
\* Auto segments of the process
MaxFit == 3

\* The sizes the Auto segments are declared with
FitSizes == {32, 64, 160, 256}

\* The process, after Align_Mem, for a sequence of declared sizes
FitProject(Sizes) ==
    Align_Mem(<< [NewProc(ProcName(1)) EXCEPT !.Mem =
                     [i \in 1..Len(Sizes) |->
                         [Start |-> AUTO, Size |-> Sizes[i], Type |-> MEM_CODE,
                          Attr |-> 0, Align |-> 0]]] >>).proj

\* The memory map ahead of the fitting loop
FitMap(proj, chip, rme, rvm) ==
    LET Count == Len(SelectSeq(chip, LAMBDA c : c.Type = MEM_CODE))
        Sorted == ChipInsertFrom(chip, <<>>, Count, MEM_CODE, 1)
        map0 == [Mem_Array |-> Sorted.Array,
                 Mem_Bitmap |-> [i \in 1..Len(Sorted.Array) |-> {}],
                 Proc_Mem_Array |-> <<>>]
        k == PopulateKernel(map0, rme, rvm, MEM_CODE)
        refs == TypedRefs(proj, MEM_CODE)
        a == AutoInsertFrom(<<>>, Len(refs), proj, refs, 1)
    IN  [k.map EXCEPT !.Proc_Mem_Array = a.Array]

InitFit ==
    /\ pc = "fit"
    /\ res = ""
    /\ Chip \in ChipChoices
    /\ RME = RMEChoice
    /\ RVM = RVMChoice
    /\ \E n \in 1..MaxFit : \E Sizes \in [1..n -> FitSizes] : Proj = FitProject(Sizes)
    /\ Map = FitMap(Proj, Chip, RME, RVM)
    /\ Pgtbl = <<>>
    /\ Mem_List = NoList
    /\ Arg = <<>>
    /\ Ret = <<>>

\* One turn of the loop of lines 2425-2430
DoFitMem ==
    /\ pc = "fit"
    /\ LET Mem_Cnt == Len(Arg) + 1
           r == Fit_Mem(Map, Mem_Cnt)
           ref == Map.Proc_Mem_Array[Mem_Cnt].ref
       IN  /\ Arg' = Append(Arg, [Mem |-> Map.Proc_Mem_Array[Mem_Cnt],
                                  Before |-> Map.Mem_Bitmap,
                                  ret |-> r.ret, Start |-> r.Start])
           /\ Ret' = r.ret
           /\ IF r.ret # 0
              THEN /\ pc' = "fail"
                   /\ res' = "Memory fitter failed."
                   /\ UNCHANGED <<Map, Proj>>
              ELSE /\ pc' = IF Mem_Cnt = Len(Map.Proc_Mem_Array) THEN "placed" ELSE pc
                   /\ res' = res
                   /\ Map' = [r.map EXCEPT !.Proc_Mem_Array[Mem_Cnt].Start = r.Start]
                   /\ Proj' = [Proj EXCEPT ![ref[1]].Mem[ref[2]].Start = r.Start]
    /\ UNCHANGED <<Chip, RME, RVM, Pgtbl, Mem_List>>

SpecFit == InitFit /\ [][DoFitMem]_vars

\* No bit of the range [s, s + Size) of the chip segment Fit is marked
RangeClear(Bitmap, Fit, s, Size) ==
    \A a \in s..(s + Size - 1) : ((a - Fit.Start) \div 4) \notin Bitmap

\* The starts at which the segment Mem may be put into the chip segment Fit:
\* the multiples of Align from the start of Fit on whose range ends at or
\* ahead of the end of Fit and is unmarked
FreeStarts(Bitmap, Fit, Mem) ==
    {s \in Fit.Start..(Fit.Start + Fit.Size) :
        /\ s % Mem.Align = 0
        /\ s + Mem.Size <= Fit.Start + Fit.Size
        /\ RangeClear(Bitmap, Fit, s, Mem.Size)}

\* The chip segments that have such a start
FitSegments(Array, Bitmaps, Mem) ==
    {i \in 1..Len(Array) : FreeStarts(Bitmaps[i], Array[i], Mem) # {}}

Least(S) == CHOOSE x \in S : \A y \in S : x <= y

\* C21: Fit_Mem puts the segment at the first start, of the first chip
\* segment, at which its range ends at or ahead of the end of the chip
\* segment and is unmarked, and it fails only when no chip segment has such
\* a start.
C21_FirstFit ==
    \A k \in 1..Len(Arg) :
       LET c == Arg[k]
           Segs == FitSegments(Map.Mem_Array, c.Before, c.Mem)
       IN  IF Segs = {} THEN c.ret = -1
           ELSE /\ c.ret = 0
                /\ c.Start = Least(FreeStarts(c.Before[Least(Segs)],
                                              Map.Mem_Array[Least(Segs)], c.Mem))

(***************************************************************************)
(* Properties of the sorted arrays of Alloc_Mem                            *)
(***************************************************************************)
\* The kind of segments the Alloc_Mem call that ran last has placed
PlacedType == IF pc = "alloc_data" THEN MEM_CODE ELSE MEM_DATA

\* C22: when Alloc_Mem has completed for a kind, Proc_Mem_Array holds
\* segments of the project of that kind only, each once, in ascending order
\* of size, no segment of that kind is left without a start, and Mem_Array
\* holds the chip segments of that kind in ascending order of start.
C22_SortedArrays ==
    pc \in {"alloc_data", "placed"} =>
        /\ \A i \in 1..Len(Map.Proc_Mem_Array) :
              Map.Proc_Mem_Array[i].ref \in TypedRefSet(PlacedType)
        /\ \A i, j \in 1..Len(Map.Proc_Mem_Array) :
              /\ i # j => Map.Proc_Mem_Array[i].ref # Map.Proc_Mem_Array[j].ref
              /\ i < j => Map.Proc_Mem_Array[i].Size <= Map.Proc_Mem_Array[j].Size
        /\ \A r \in TypedRefSet(PlacedType) : SegAt(r).Start # AUTO
        /\ \A i, j \in 1..Len(Map.Mem_Array) :
              i < j => Map.Mem_Array[i].Start <= Map.Mem_Array[j].Start
        /\ Len(Map.Mem_Array) = Cardinality({i \in 1..Len(Chip) : Chip[i].Type = PlacedType})

\* The data sections of the kernel and of the runtime that follows it
KernelData == [Start |-> RME.Data_Start, Size |-> RME.Data_Size]
RuntimeData == [Start |-> RME.Data_Start + RME.Data_Size, Size |-> RVM.Data_Size]

\* C23: when Alloc_Mem has completed for a kind, the section of the kernel
\* of that kind and the section of the runtime behind it lie inside a chip
\* segment of that kind, and no process segment of that kind overlaps them.
C23_KernelReserved ==
    /\ pc \in {"alloc_data", "placed"} =>
          /\ InsideChip(KernelCode, MEM_CODE)
          /\ InsideChip(RuntimeCode, MEM_CODE)
          /\ \A r \in TypedRefSet(MEM_CODE) :
                SegAt(r).Start # AUTO =>
                   ~Overlaps(SegAt(r), KernelCode) /\ ~Overlaps(SegAt(r), RuntimeCode)
    /\ pc = "placed" =>
          /\ InsideChip(KernelData, MEM_DATA)
          /\ InsideChip(RuntimeData, MEM_DATA)
          /\ \A r \in TypedRefSet(MEM_DATA) :
                SegAt(r).Start # AUTO =>
                   ~Overlaps(SegAt(r), KernelData) /\ ~Overlaps(SegAt(r), RuntimeData)

(***************************************************************************)
(* Specification SpecAlign: A7M_Align on one memory segment.  Arg is the   *)
(* segment as Parse_Process_Memory left it and Ret the segment as          *)
(* A7M_Align leaves it.                                                    *)
(***************************************************************************)
\* largest size of the sizes drawn in a row
MaxAlignSize == 96

\* 0x1000, and a size above half of the word
AlignSamples == {4096, W32 - 32}

InitAlign ==
    /\ pc = "call"
    /\ NoProject
    /\ \E Start \in {AUTO, 288}, Size \in (0..MaxAlignSize) \cup AlignSamples :
          Arg = [Start |-> Start, Size |-> Size, Type |-> MEM_CODE, Attr |-> 0, Align |-> 0]
    /\ Ret = <<>>

\* Align_Mem calls A7M_Align(&Mem) (line 2133); a return of -1 ends the run
CallAlign ==
    /\ pc = "call"
    /\ LET r == A7M_Align(Arg)
       IN  /\ pc' = IF r.out # "ret" THEN r.out ELSE IF r.ret # 0 THEN "fail" ELSE "ret"
           /\ res' = IF r.out = "ret" /\ r.ret # 0 THEN "Memory aligning failed." ELSE res
           /\ Ret' = r.Mem
    /\ UNCHANGED <<Chip, RME, RVM, Proj, Map, Pgtbl, Mem_List, Arg>>

SpecAlign == InitAlign /\ [][CallAlign]_vars

\* The smallest power of two that is not below s
PowerAbove(s) == Least({Pow2(k) : k \in 0..30} \cap s..W32)

\* C24: for an Auto segment of size s > 0, A7M_Align returns with align set
\* to P/8, P the smallest power of two not below s, with size set to the
\* largest multiple of align not above s, both not zero, and with start
\* still Auto.
C24_AlignDown ==
    pc # "call" /\ Arg.Start = AUTO /\ Arg.Size > 0 =>
        /\ pc = "ret"
        /\ Ret.Align = PowerAbove(Arg.Size) \div 8
        /\ Ret.Align # 0
        /\ Ret.Size = (Arg.Size \div Ret.Align) * Ret.Align
        /\ Ret.Size # 0
        /\ Ret.Start = AUTO

\* The tables of a tree
RECURSIVE Nodes(_)
Nodes(tbl) ==
    {tbl} \cup UNION {Nodes(tbl.Mapping[i].Next[1]) :
                        i \in {j \in 1..Len(tbl.Mapping) : tbl.Mapping[j].Next # <<>>}}

\* The Total_Order of the table built for the segments Mem
TotalOrderOf(Mem) ==
    LET Found == TotalOrderFrom(PgStart(Mem), PgEnd(Mem), 0)
    IN  IF Found < 8 THEN 8 ELSE Found

\* A segment has addresses on both sides of a boundary between two of the
\* 2^n parts of the box of 2^Total_Order bytes
Straddles(Mem, Total_Order, n) ==
    \E i \in 1..Len(Mem) : \E k \in 1..(Pow2(n) - 1) :
        LET Boundary == (PgStart(Mem) \div Pow2(Total_Order)) * Pow2(Total_Order)
                        + k * Pow2(Total_Order - n)
        IN  Mem[i].Start < Boundary /\ Boundary < Mem[i].Start + Mem[i].Size

\* The order the table for the segments Mem is to have
ChosenOrder(Mem) ==
    LET Fits == {n \in 1..3 : ~Straddles(Mem, TotalOrderOf(Mem), n)}
    IN  IF DirectlyMappable(Mem, TotalOrderOf(Mem)) THEN 3
        ELSE IF Fits = {} THEN 1
        ELSE CHOOSE n \in Fits : \A m \in Fits : m <= n

\* C25: every table of a tree has a Num_Order of 0 to 3 and no more than 8
\* elements of Mapping, and the table of a process has the order 3 when its
\* segments are directly mappable, else the largest order of 1 to 3 under
\* which no segment straddles a boundary, else 1.
C25_NumOrder ==
    \A p \in 1..Len(Pgtbl) :
        /\ \A t \in Nodes(Pgtbl[p]) : t.Num_Order \in 0..3 /\ Len(t.Mapping) <= 8
        /\ Pgtbl[p].Num_Order = ChosenOrder(Proj[p].Mem)

\* The end of the highest segment, as a number
TightEnd(Mem) == Least({0 - (Mem[i].Start + Mem[i].Size) : i \in 1..Len(Mem)}) * (-1)

\* The smallest order from 8 on whose box around the lowest start holds all
\* segments
SmallestOrder(Mem) ==
    Least({n \in 8..30 :
             (PgStart(Mem) \div Pow2(n)) * Pow2(n) + Pow2(n) >= TightEnd(Mem)})

\* C26: the search for the total order ends, and the table of every process
\* has as its total order the smallest order from 8 on whose box holds the
\* segments of the process from the lowest start to the highest end.
C26_TotalOrder ==
    /\ pc # "hang"
    /\ \A p \in 1..Len(Pgtbl) :
          Pgtbl[p].Size_Order + Pgtbl[p].Num_Order = SmallestOrder(Proj[p].Mem)

\* The tables that the Mapping of a table points to
Children(tbl) ==
    {tbl.Mapping[i].Next[1] : i \in {j \in 1..Len(tbl.Mapping) : tbl.Mapping[j].Next # <<>>}}

\* Every table under a table is smaller than the pages of that table
Descends(tbl) ==
    \A n \in Nodes(tbl) : \A c \in Children(n) :
        /\ c.Size_Order + c.Num_Order <= n.Size_Order
        /\ n.Size_Order < n.Size_Order + n.Num_Order

\* C27: the generation of a page table always comes to an end, and in every
\* table that it returns the total order of a child is at most the size
\* order of its parent, which is below the total order of the parent.
C27_Terminates ==
    /\ pc # "hang"
    /\ \A p \in 1..Len(Pgtbl) : Descends(Pgtbl[p])

\* The range of subregion i (from 0) of a table
SubStart(tbl, i) == tbl.Start_Addr + i * Pow2(tbl.Size_Order)
SubEnd(tbl, i) == tbl.Start_Addr + (i + 1) * Pow2(tbl.Size_Order)

\* A table is a legal region for the segments Mem: aligned to its size,
\* every subregion lies inside the region, every mapped subregion is held
\* by one segment, and every child lies inside the subregion it hangs on
LegalRegion(tbl, Mem) ==
    /\ tbl.Start_Addr % Pow2(tbl.Size_Order + tbl.Num_Order) = 0
    /\ \A i \in 0..(Len(tbl.Mapping) - 1) :
          /\ SubEnd(tbl, i) <= tbl.Start_Addr + Pow2(tbl.Size_Order + tbl.Num_Order)
          /\ tbl.Mapping[i + 1].Page = 1 =>
                \E k \in 1..Len(Mem) :
                    /\ Mem[k].Start <= SubStart(tbl, i)
                    /\ Mem[k].Start + Mem[k].Size >= SubEnd(tbl, i)
          /\ tbl.Mapping[i + 1].Next # <<>> =>
                LET c == tbl.Mapping[i + 1].Next[1]
                IN  /\ SubStart(tbl, i) <= c.Start_Addr
                    /\ c.Start_Addr + Pow2(c.Size_Order + c.Num_Order) <= SubEnd(tbl, i)

\* C28: every table of every generated tree is a legal region: its start
\* is a multiple of its size, its subregion i is the i-th part of that size
\* counted from its start, and a child table lies inside the subregion that
\* points to it.
C28_LegalRegions ==
    \A p \in 1..Len(Pgtbl) : \A n \in Nodes(Pgtbl[p]) : LegalRegion(n, Proj[p].Mem)

\* A valid identifier: not empty, letters, digits and underscores, no digit
\* in front
ValidIdent(Name) ==
    /\ Name # <<>>
    /\ ~IsDigit(Name[1])
    /\ \A i \in 1..Len(Name) : IsIdentChar(Name[i])

\* Every name of the project is a valid identifier
AllNamesValid ==
    /\ \A p \in 1..Len(Proj) : ValidIdent(Proj[p].Name)
    /\ \A List \in {"Thd", "Inv", "Port", "Endp"} :
          \A r \in RefSet(List) : ValidIdent(ObjAt(List, r).Name)
    /\ \A r \in RefSet("Port") : ValidIdent(ObjAt("Port", r).Process)
    /\ \A r \in EndpOfType(ENDP_SEND) : ValidIdent(ObjAt("Endp", r).Process)

\* Two ports, or two send endpoints, of one process have the same name and
\* the same target, case ignored
DuplicatePair ==
    \/ \E p \in 1..Len(Proj) : \E i, j \in 1..Len(Proj[p].Port) :
          /\ i # j
          /\ SameName(Proj[p].Port[i].Name, Proj[p].Port[j].Name)
          /\ SameName(Proj[p].Port[i].Process, Proj[p].Port[j].Process)
    \/ \E p \in 1..Len(Proj) : \E i, j \in 1..Len(Proj[p].Endp) :
          /\ i # j
          /\ Proj[p].Endp[i].Type = ENDP_SEND /\ Proj[p].Endp[j].Type = ENDP_SEND
          /\ SameName(Proj[p].Endp[i].Name, Proj[p].Endp[j].Name)
          /\ SameName(Proj[p].Endp[i].Process, Proj[p].Endp[j].Process)

\* A handler endpoint has the name of another handler endpoint or of a
\* receive endpoint
DuplicateHandler ==
    \E r \in EndpOfType(ENDP_HANDLER) :
        \E q \in EndpOfType(ENDP_HANDLER) \cup EndpOfType(ENDP_RECEIVE) :
            q # r /\ SameName(ObjAt("Endp", q).Name, ObjAt("Endp", r).Name)

\* A project without any of the conflicts Detect_Conflict looks for
NoConflict ==
    /\ AllNamesValid
    /\ ~DuplicateProc
    /\ ~DuplicateIn("Thd") /\ ~DuplicateIn("Inv") /\ ~DuplicateReceive
    /\ ~DuplicatePair
    /\ ~SelfTarget
    /\ ~DuplicateHandler

\* C29: on a project in which all names are valid, no two processes, no two
\* threads, invocations or receive endpoints of a process, no two ports or
\* send endpoints of a process with one target share a name, no port targets
\* its own process and no handler has the name of another handler or of a
\* receive endpoint, Detect_Conflict returns.
C29_NoFalseRejection ==
    [][(pc = "detect" /\ NoConflict) => pc' = "local"]_vars

(***************************************************************************)
(* Specification SpecStrcicmp: Strcicmp on the pairs of strings over a     *)
(* small alphabet                                                          *)
(***************************************************************************)
\* 'A', 'a', 'B'
CmpAlphabet == {65, 97, 66}

InitStrcicmp ==
    /\ pc = "call"
    /\ NoProject
    /\ Arg \in StringsUpTo(CmpAlphabet, MaxNameLen) \X StringsUpTo(CmpAlphabet, MaxNameLen)
    /\ Ret = <<>>

\* A call of Strcicmp(Arg[1], Arg[2])
CallStrcicmp ==
    /\ pc = "call"
    /\ \E o \in Strcicmp(Arg[1], Arg[2]) :
          /\ pc' = o[1]
          /\ Ret' = o[2]
    /\ UNCHANGED <<res, Chip, RME, RVM, Proj, Map, Pgtbl, Mem_List, Arg>>

SpecStrcicmp == InitStrcicmp /\ [][CallStrcicmp]_vars

\* C30: Strcicmp returns on every pair of strings, and it returns 0 exactly
\* when the two strings have the same length and the same characters, case
\* ignored.
C30_EqualIgnoringCase ==
    /\ pc \in {"call", "ret"}
    /\ pc = "ret" => (Ret = 0 <=> SameName(Arg[1], Arg[2]))

====
